---- MODULE Spec2Model ----
(***************************************************************************)
(* A model of the TOWAF site generator: datasets/datasets.py exports the   *)
(* rows of an SQLite database into a tree of JSON files and content.json,  *)
(* content/content.py renders content.json into a tree of HTML pages, and  *)
(* both prune what the current input no longer produces.                   *)
(*                                                                         *)
(* Text is a sequence of one-character strings, a file or directory name   *)
(* is text, a path is a sequence of names from the repository root.        *)
(* SHA-256 is taken to be collision free: two contents have the same       *)
(* digest exactly when they are equal.                                     *)
(***************************************************************************)
EXTENDS Integers, Sequences, FiniteSets, TLC

VARIABLES
    fs,        \* the file tree: [files: path -> content, dirs: set of paths]
    db,        \* datasets/TOWAF-database.db: [state, tables]
    faults,    \* paths whose write / delete fails in the current run
    prog,      \* the script that is running: "content" or "datasets"
    pc,        \* where the running script's main() is
    loc,       \* main()'s local variables
    log,       \* the outcomes the current run has printed, in order
    fs0,       \* the file tree when the current run started
    prev       \* the run before the current one: [input, pc]

vars == <<fs, db, faults, prog, pc, loc, log, fs0, prev>>

(***************************************************************************)
(* Bounds of the model.                                                    *)
(***************************************************************************)
\* The longest input list of a run (records of content.json, rows of the
\* database).
MaxRecords == 2

(***************************************************************************)
(* Characters and text.                                                    *)
(***************************************************************************)
UpperChars == <<"A", "B", "C", "D", "E", "F", "G", "H", "I", "J", "K", "L", "M",
                "N", "O", "P", "Q", "R", "S", "T", "U", "V", "W", "X", "Y", "Z">>

LowerChars == <<"a", "b", "c", "d", "e", "f", "g", "h", "i", "j", "k", "l", "m",
                "n", "o", "p", "q", "r", "s", "t", "u", "v", "w", "x", "y", "z">>

DigitChars == <<"0", "1", "2", "3", "4", "5", "6", "7", "8", "9">>

\* The characters of the model in code point order (str comparison).
CharOrder == <<"\t", " ", "!", "-", ".", "/">> \o DigitChars \o UpperChars \o <<"_">> \o LowerChars

Range(s) == {s[i] : i \in 1..Len(s)}

IndexOf(s, c) == CHOOSE i \in 1..Len(s) : s[i] = c

Ord(c) == IndexOf(CharOrder, c)

\* str.lower(), one character
LowerChar(c) == IF c \in Range(UpperChars) THEN LowerChars[IndexOf(UpperChars, c)] ELSE c

\* str.lower()
Lower(s) == [i \in 1..Len(s) |-> LowerChar(s[i])]

\* str.replace(a, b) for one-character a and b
ReplaceChar(s, a, b) == [i \in 1..Len(s) |-> IF s[i] = a THEN b ELSE s[i]]

\* str.strip(chars)
Strip(s, chars) ==
    LET keep == {i \in 1..Len(s) : s[i] \notin chars}
    IN  IF keep = {} THEN <<>>
        ELSE SubSeq(s, CHOOSE i \in keep : \A j \in keep : i <= j,
                       CHOOSE i \in keep : \A j \in keep : j <= i)

Whitespace == {" "}

\* str.endswith(suffix)
EndsWith(s, suffix) ==
    /\ Len(s) >= Len(suffix)
    /\ SubSeq(s, Len(s) - Len(suffix) + 1, Len(s)) = suffix

\* s[:-5]
DropLast5(s) == SubSeq(s, 1, Len(s) - 5)

\* a < b for str
RECURSIVE StrLess(_, _)
StrLess(a, b) ==
    IF b = <<>> THEN FALSE
    ELSE IF a = <<>> THEN TRUE
    ELSE IF a[1] # b[1] THEN Ord(a[1]) < Ord(b[1])
    ELSE StrLess(Tail(a), Tail(b))

\* The elements of a finite set in an order fixed by the set.
RECURSIVE SetToSeq(_)
SetToSeq(S) ==
    IF S = {} THEN <<>>
    ELSE LET x == CHOOSE y \in S : TRUE IN <<x>> \o SetToSeq(S \ {x})

\* All sequences of pairwise different elements of S of length at most n.
RECURSIVE DistinctSeqs(_, _)
DistinctSeqs(S, n) ==
    IF n = 0 THEN {<<>>}
    ELSE LET shorter == DistinctSeqs(S, n - 1)
         IN  shorter \cup UNION {{Append(q, x) : x \in S \ Range(q)} : q \in shorter}

(***************************************************************************)
(* String literals of the two scripts.                                     *)
(***************************************************************************)
s_unknown == <<"u", "n", "k", "n", "o", "w", "n">>
s_unknown_name == <<"u", "n", "k", "n", "o", "w", "n", "-", "n", "a", "m", "e">>
s_unknown_topic == <<"u", "n", "k", "n", "o", "w", "n", "-", "t", "o", "p", "i", "c">>
s_unknown_category == <<"u", "n", "k", "n", "o", "w", "n", "-", "c", "a", "t", "e", "g", "o", "r", "y">>
s_unknown_categories == <<"u", "n", "k", "n", "o", "w", "n", "-", "c", "a", "t", "e", "g", "o", "r", "i", "e", "s">>
s_None == <<"N", "o", "n", "e">>
s_Unknown_Name == <<"U", "n", "k", "n", "o", "w", "n", " ", "N", "a", "m", "e">>
s_Unknown_Topic == <<"U", "n", "k", "n", "o", "w", "n", " ", "T", "o", "p", "i", "c">>
s_Unknown_Category == <<"U", "n", "k", "n", "o", "w", "n", " ", "C", "a", "t", "e", "g", "o", "r", "y">>
ext_html == <<".", "h", "t", "m", "l">>
ext_json == <<".", "j", "s", "o", "n">>
ext_jpg == <<".", "j", "p", "g">>
n_content == <<"c", "o", "n", "t", "e", "n", "t">>
n_datasets == <<"d", "a", "t", "a", "s", "e", "t", "s">>
n_templates == <<"t", "e", "m", "p", "l", "a", "t", "e", "s">>
n_media == <<"m", "e", "d", "i", "a">>
n_content_py == <<"c", "o", "n", "t", "e", "n", "t", ".", "p", "y">>
n_datasets_py == <<"d", "a", "t", "a", "s", "e", "t", "s", ".", "p", "y">>
n_index_html == <<"i", "n", "d", "e", "x", ".", "h", "t", "m", "l">>
n_content_html == <<"c", "o", "n", "t", "e", "n", "t", ".", "h", "t", "m", "l">>
n_content_json == <<"c", "o", "n", "t", "e", "n", "t", ".", "j", "s", "o", "n">>
n_topics_json == <<"t", "o", "p", "i", "c", "s", ".", "j", "s", "o", "n">>
n_categories_json == <<"c", "a", "t", "e", "g", "o", "r", "i", "e", "s", ".", "j", "s", "o", "n">>
n_blacklist_json == <<"b", "l", "a", "c", "k", "l", "i", "s", "t", ".", "j", "s", "o", "n">>
n_media_template == <<"s", "l", "u", "g", "i", "f", "i", "e", "d", "-", "m", "e", "d", "i", "a", "-", "p", "i", "e", "c", "e", ".", "h", "t", "m", "l">>
n_category_template == <<"s", "l", "u", "g", "i", "f", "i", "e", "d", "-", "c", "a", "t", "e", "g", "o", "r", "y", ".", "h", "t", "m", "l">>
n_topic_template == <<"s", "l", "u", "g", "i", "f", "i", "e", "d", "-", "t", "o", "p", "i", "c", ".", "h", "t", "m", "l">>
tok_NAME_ENTRY == <<"N", "A", "M", "E", "_", "E", "N", "T", "R", "Y">>
tok_TOPIC_ENTRY == <<"T", "O", "P", "I", "C", "_", "E", "N", "T", "R", "Y">>
tok_CATEGORY_ENTRY == <<"C", "A", "T", "E", "G", "O", "R", "Y", "_", "E", "N", "T", "R", "Y">>
tok_TOPIC_SLUGIFIED == <<"T", "O", "P", "I", "C", "-", "S", "L", "U", "G", "I", "F", "I", "E", "D">>
tok_CATEGORY_SLUGIFIED == <<"C", "A", "T", "E", "G", "O", "R", "Y", "-", "S", "L", "U", "G", "I", "F", "I", "E", "D">>
tok_NAME_SLUGIFIED == <<"N", "A", "M", "E", "-", "S", "L", "U", "G", "I", "F", "I", "E", "D">>
p_content == <<"/", "c", "o", "n", "t", "e", "n", "t", "/">>
p_media_content == <<"/", "m", "e", "d", "i", "a", "/", "c", "o", "n", "t", "e", "n", "t", "/">>

(***************************************************************************)
(* Python values: None, a str, an int, a dict (a function from keys).      *)
(***************************************************************************)
None == [t |-> "none"]

StrV(s) == [t |-> "str", s |-> s]

IntV(n) == [t |-> "int", n |-> n]

DictV(d) == [t |-> "dict", d |-> d]

IsStr(v) == v.t = "str"

\* str(value), for the values of the model (an int has one digit)
PyStr(v) ==
    IF v.t = "str" THEN v.s
    ELSE IF v.t = "int" THEN <<DigitChars[v.n + 1]>>
    ELSE s_None

\* bool(value)
Truthy(v) ==
    IF v.t = "str" THEN v.s # <<>>
    ELSE IF v.t = "int" THEN v.n # 0
    ELSE IF v.t = "dict" THEN DOMAIN v.d # {}
    ELSE FALSE

\* dict.get(key), None when the key is absent
Get(d, key) == IF key \in DOMAIN d THEN d[key] ELSE None

\* dict.get(key, default)
GetOr(d, key, default) == IF key \in DOMAIN d THEN d[key] ELSE default

\* a or b
PyOr(a, b) == IF Truthy(a) THEN a ELSE b

(***************************************************************************)
(* slugify: content/content.py and datasets/datasets.py define the same    *)
(* function. The result is text.                                           *)
(***************************************************************************)
SlugChars == Range(LowerChars) \cup Range(DigitChars) \cup {"-", "."}

\* A slugify that trims the ends before it drops the other characters.
slugify_trimmed_first(text) ==
    IF text = None THEN s_unknown
    ELSE LET lowered  == Lower(PyStr(text))
             hyphened == ReplaceChar(ReplaceChar(lowered, " ", "-"), "_", "-")
             stripped == Strip(hyphened, {".", "-"})
             kept     == SelectSeq(stripped, LAMBDA c : c \in SlugChars)
         IN  IF kept # <<>> THEN kept ELSE s_unknown


\* A slugify that does not trim the hyphens and periods at the ends.
slugify_untrimmed(text) ==
    IF text = None THEN s_unknown
    ELSE LET lowered  == Lower(PyStr(text))
             hyphened == ReplaceChar(ReplaceChar(lowered, " ", "-"), "_", "-")
             kept     == SelectSeq(hyphened, LAMBDA c : c \in SlugChars)
         IN  IF kept # <<>> THEN kept ELSE s_unknown


slugify(text) ==
    IF text = None THEN s_unknown
    ELSE LET lowered  == Lower(PyStr(text))
             hyphened == ReplaceChar(ReplaceChar(lowered, " ", "-"), "_", "-")
             kept     == SelectSeq(hyphened, LAMBDA c : c \in SlugChars)
             stripped == Strip(kept, {".", "-"})
         IN  IF stripped # <<>> THEN stripped ELSE s_unknown

\* normalize_value of content/content.py: text
normalize_value(value) ==
    IF value # None /\ Strip(PyStr(value), Whitespace) # <<>>
    THEN Strip(PyStr(value), Whitespace)
    ELSE s_unknown

\* normalize_value of datasets/datasets.py: a value
ds_normalize_value(value) ==
    IF value \notin {StrV(<<>>), None} THEN value ELSE None

(***************************************************************************)
(* The file tree.                                                          *)
(***************************************************************************)
\* A file's content: text (a sequence of pieces, each text) or JSON.
Text(body) == [kind |-> "text", body |-> body]

\* A JSON document: a list of items, or (isList false) something else.
Json(isList, data) == [kind |-> "json", isList |-> isList, data |-> data]

Parent(p) == SubSeq(p, 1, Len(p) - 1)

Prefixes(p) == {SubSeq(p, 1, n) : n \in 1..Len(p)}

IsPrefix(d, p) == Len(d) <= Len(p) /\ SubSeq(p, 1, Len(d)) = d

\* os.path.isdir / isfile / exists
IsDir(f, p) == p = <<>> \/ p \in f.dirs

IsFile(f, p) == p \in DOMAIN f.files

Exists(f, p) == IsDir(f, p) \/ IsFile(f, p)

\* os.listdir: the names in directory d
ListDir(f, d) ==
    {p[Len(p)] : p \in {q \in f.dirs \cup DOMAIN f.files : q # <<>> /\ Parent(q) = d}}

\* os.makedirs(p, exist_ok=True) raises when p or one of its ancestors is a file
MakedirsFails(f, p) == \E q \in Prefixes(p) : IsFile(f, q)

Makedirs(f, p) == [f EXCEPT !.dirs = @ \cup Prefixes(p)]

\* open(p, "w") and write
PutFile(f, p, content) ==
    [f EXCEPT !.files = [q \in DOMAIN @ \cup {p} |-> IF q = p THEN content ELSE @[q]]]

\* os.remove of a set of files
RemoveFiles(f, ps) == [f EXCEPT !.files = [q \in DOMAIN @ \ ps |-> @[q]]]

\* shutil.rmtree of a set of directories
RmTrees(f, ds) ==
    [files |-> [q \in {r \in DOMAIN f.files : ~ \E d \in ds : IsPrefix(d, r)} |-> f.files[q]],
     dirs  |-> {r \in f.dirs : ~ \E d \in ds : IsPrefix(d, r)}]

(***************************************************************************)
(* Outcomes. A run's log holds one <<outcome, path>> per action the code   *)
(* prints or silently skips: "written", "unchanged", "write_failed",       *)
(* "rejected" (None content), "deleted", "delete_failed".                  *)
(***************************************************************************)
NoFaults == [read |-> {}, write |-> {}, remove |-> {}]

\* content_str of a write call whose content is None
NoContent == [kind |-> "none"]

Say(st, outcome, path) == [st EXCEPT !.log = Append(@, <<outcome, path>>)]

\* A write_file that does not compare with the file that is there.
write_file_always(st, file_path, content_str) ==
    IF content_str = NoContent THEN Say(st, "rejected", file_path)
    ELSE IF MakedirsFails(st.fs, Parent(file_path))
    THEN Say(st, "write_failed", file_path)
    ELSE LET made == [st EXCEPT !.fs = Makedirs(@, Parent(file_path))]
         IN  IF IsDir(made.fs, file_path) \/ file_path \in faults.write
             THEN Say(made, "write_failed", file_path)
             ELSE Say([made EXCEPT !.fs = PutFile(@, file_path, content_str)],
                      "written", file_path)

\* A write_file whose failed write takes the file that was there with it.
write_file_truncating(st, file_path, content_str) ==
    IF content_str = NoContent THEN Say(st, "rejected", file_path)
    ELSE IF /\ IsFile(st.fs, file_path)
            /\ file_path \notin faults.read
            /\ st.fs.files[file_path] = content_str
    THEN Say(st, "unchanged", file_path)
    ELSE IF MakedirsFails(st.fs, Parent(file_path))
    THEN Say(st, "write_failed", file_path)
    ELSE LET made == [st EXCEPT !.fs = Makedirs(@, Parent(file_path))]
         IN  IF IsDir(made.fs, file_path) \/ file_path \in faults.write
             THEN Say([made EXCEPT !.fs = RemoveFiles(@, {file_path})],
                      "write_failed", file_path)
             ELSE Say([made EXCEPT !.fs = PutFile(@, file_path, content_str)],
                      "written", file_path)


\* A write_file that leaves a file that is there as it is, whatever it holds.
write_file_keeping(st, file_path, content_str) ==
    IF content_str = NoContent THEN Say(st, "rejected", file_path)
    ELSE IF IsFile(st.fs, file_path) THEN Say(st, "unchanged", file_path)
    ELSE IF MakedirsFails(st.fs, Parent(file_path))
    THEN Say(st, "write_failed", file_path)
    ELSE LET made == [st EXCEPT !.fs = Makedirs(@, Parent(file_path))]
         IN  IF IsDir(made.fs, file_path) \/ file_path \in faults.write
             THEN Say(made, "write_failed", file_path)
             ELSE Say([made EXCEPT !.fs = PutFile(@, file_path, content_str)],
                      "written", file_path)


\* A write_file that takes None for a content like any other.
write_file_of_none(st, file_path, content_str) ==
    LET made == [st EXCEPT !.fs = Makedirs(@, Parent(file_path))]
    IN  IF MakedirsFails(st.fs, Parent(file_path)) \/ IsDir(made.fs, file_path)
        THEN Say(st, "write_failed", file_path)
        ELSE Say([made EXCEPT !.fs = PutFile(@, file_path, content_str)],
                 "written", file_path)


\* write_file of content/content.py and write_file_if_different of
\* datasets/datasets.py: st is any record with fields fs and log.
write_file(st, file_path, content_str) ==
    IF content_str = NoContent THEN Say(st, "rejected", file_path)
    ELSE IF /\ IsFile(st.fs, file_path)
            /\ file_path \notin faults.read
            /\ st.fs.files[file_path] = content_str
    THEN Say(st, "unchanged", file_path)
    ELSE IF MakedirsFails(st.fs, Parent(file_path))
    THEN Say(st, "write_failed", file_path)
    ELSE LET made == [st EXCEPT !.fs = Makedirs(@, Parent(file_path))]
         IN  IF IsDir(made.fs, file_path) \/ file_path \in faults.write
             THEN Say(made, "write_failed", file_path)
             ELSE Say([made EXCEPT !.fs = PutFile(@, file_path, content_str)],
                      "written", file_path)

\* An os.remove loop that ends at the first failure: with a faulty path
\* among the files nothing else is removed.
RemoveEach_aborting(st, directory, names) ==
    LET paths  == {Append(directory, n) : n \in names}
        stuck  == {p \in paths : ~ IsFile(st.fs, p) \/ p \in faults.remove}
        order  == SetToSeq(paths)
    IN  IF stuck = {}
        THEN [st EXCEPT
                 !.fs  = RemoveFiles(@, paths),
                 !.log = @ \o [i \in 1..Len(order) |-> <<"deleted", order[i]>>]]
        ELSE Say(st, "delete_failed", CHOOSE p \in stuck : TRUE)


\* os.remove of every file of directory named in names, one by one; a
\* directory or a faulty path is not removed and the loop goes on.
RemoveEach(st, directory, names) ==
    LET paths  == {Append(directory, n) : n \in names}
        gone   == {p \in paths : IsFile(st.fs, p) /\ p \notin faults.remove}
        order  == SetToSeq(paths)
    IN  [st EXCEPT
            !.fs  = RemoveFiles(@, gone),
            !.log = @ \o [i \in 1..Len(order) |->
                            <<IF order[i] \in gone THEN "deleted" ELSE "delete_failed",
                              order[i]>>]]

\* shutil.rmtree of every directory of directory named in names, one by one.
RmtreeEach(st, directory, names) ==
    LET paths  == {Append(directory, n) : n \in names}
        gone   == {p \in paths : p \notin faults.remove}
        order  == SetToSeq(paths)
    IN  [st EXCEPT
            !.fs  = RmTrees(@, gone),
            !.log = @ \o [i \in 1..Len(order) |->
                            <<IF order[i] \in gone THEN "deleted" ELSE "delete_failed",
                              order[i]>>]]

(***************************************************************************)
(* content/content.py: cleanup.                                            *)
(***************************************************************************)
\* A cleanup_orphan_html_files that does not look at the extension.
cleanup_orphan_html_files_any(st, directory, expected_files) ==
    IF ~ IsDir(st.fs, directory) THEN st
    ELSE RemoveEach(st, directory,
                    {filename \in ListDir(st.fs, directory) : filename \notin expected_files})


\* A cleanup_orphan_html_files that deletes nothing.
cleanup_orphan_html_files_kept(st, directory, expected_files) == st

cleanup_orphan_html_files(st, directory, expected_files) ==
    IF ~ IsDir(st.fs, directory) THEN st
    ELSE RemoveEach(st, directory,
                    {filename \in ListDir(st.fs, directory) :
                        EndsWith(filename, ext_html) /\ filename \notin expected_files})

RECURSIVE CleanupDirs(_, _, _)
CleanupDirs(st, expected_files_by_dir, directories) ==
    IF directories = <<>> THEN st
    ELSE CleanupDirs(cleanup_orphan_html_files(st, Head(directories),
                                               expected_files_by_dir[Head(directories)]),
                     expected_files_by_dir, Tail(directories))

cleanup_html_content_files(st, expected_files_by_dir) ==
    CleanupDirs(st, expected_files_by_dir, SetToSeq(DOMAIN expected_files_by_dir))

\* The names cleanup_orphan_content_folders never takes for topic folders,
\* and the base-level pages it keeps.
known_files_or_dirs == {n_templates, n_media, n_content_py}

known_base_pages == {n_index_html, n_content_html}

\* Step 2 of cleanup_orphan_content_folders, for the active topics in turn.
RECURSIVE CleanupCategoryFolders(_, _, _, _)
CleanupCategoryFolders(st, output_base_path, topic_slugs, active_categories_by_topic_slug) ==
    IF topic_slugs = <<>> THEN st
    ELSE LET topic_slug == Head(topic_slugs)
             topic_folder_path == Append(output_base_path, topic_slug)
             active == IF topic_slug \in DOMAIN active_categories_by_topic_slug
                       THEN active_categories_by_topic_slug[topic_slug] ELSE {}
             items  == ListDir(st.fs, topic_folder_path)
             pages  == {n \in items : /\ IsFile(st.fs, Append(topic_folder_path, n))
                                      /\ EndsWith(n, ext_html)
                                      /\ DropLast5(n) \notin active}
             dirs   == {n \in items : /\ IsDir(st.fs, Append(topic_folder_path, n))
                                      /\ n \notin active}
             next   == IF ~ IsDir(st.fs, topic_folder_path) THEN st
                       ELSE RmtreeEach(RemoveEach(st, topic_folder_path, pages),
                                       topic_folder_path, dirs)
         IN  CleanupCategoryFolders(next, output_base_path, Tail(topic_slugs),
                                    active_categories_by_topic_slug)

cleanup_orphan_content_folders(st, output_base_path, active_topic_slugs, active_categories_by_topic_slug) ==
    IF ~ IsDir(st.fs, output_base_path) THEN st
    ELSE LET items == ListDir(st.fs, output_base_path)
             pages == {n \in items : /\ IsFile(st.fs, Append(output_base_path, n))
                                     /\ EndsWith(n, ext_html)
                                     /\ n \notin known_base_pages
                                     /\ DropLast5(n) \notin active_topic_slugs}
             dirs  == {n \in items : /\ IsDir(st.fs, Append(output_base_path, n))
                                     /\ n \notin known_files_or_dirs
                                     /\ n \notin active_topic_slugs}
             step1 == RmtreeEach(RemoveEach(st, output_base_path, pages),
                                 output_base_path, dirs)
         IN  CleanupCategoryFolders(step1, output_base_path, SetToSeq(active_topic_slugs),
                                    active_categories_by_topic_slug)

(***************************************************************************)
(* content/content.py: loading, rendering, generation.                     *)
(***************************************************************************)
\* The result of a load that failed (the code returns None).
LoadFailed == [kind |-> "failed"]

\* load_database: the parsed JSON document, or LoadFailed
load_database(f, db_path) ==
    IF ~ Exists(f, db_path) THEN LoadFailed
    ELSE IF IsFile(f, db_path) /\ db_path \notin faults.read /\ f.files[db_path].kind = "json"
    THEN f.files[db_path]
    ELSE LoadFailed

\* load_template: the template's text, or LoadFailed
load_template(f, template_path) ==
    IF ~ Exists(f, template_path) THEN LoadFailed
    ELSE IF IsFile(f, template_path) /\ template_path \notin faults.read
            /\ f.files[template_path].kind = "text"
    THEN f.files[template_path]
    ELSE LoadFailed

\* str.replace(token, value) on a text whose pieces are tokens and values
Replace(body, token, value) ==
    [i \in 1..Len(body) |-> IF body[i] = token THEN value ELSE body[i]]

generate_media_html(entry, template) ==
    LET name_display     == PyOr(GetOr(entry, "name", StrV(s_Unknown_Name)), StrV(s_Unknown_Name))
        topic_display    == PyOr(GetOr(entry, "topic", StrV(s_Unknown_Topic)), StrV(s_Unknown_Topic))
        category_display == PyOr(GetOr(entry, "category", StrV(s_Unknown_Category)),
                                 StrV(s_Unknown_Category))
        topic_slug_val    == slugify(Get(entry, "topic"))
        category_slug_val == slugify(Get(entry, "category"))
        name_slug_val     == slugify(Get(entry, "name"))
        c1 == Replace(template.body, tok_NAME_ENTRY, PyStr(name_display))
        c2 == Replace(c1, tok_TOPIC_ENTRY, PyStr(topic_display))
        c3 == Replace(c2, tok_CATEGORY_ENTRY, PyStr(category_display))
        c4 == Replace(c3, tok_TOPIC_SLUGIFIED, topic_slug_val)
        c5 == Replace(c4, tok_CATEGORY_SLUGIFIED, category_slug_val)
    IN  Text(Replace(c5, tok_NAME_SLUGIFIED, name_slug_val))

generate_category_html(topic_original, category_original, entries, category_template) ==
    LET topic_display    == IF Truthy(topic_original) THEN PyStr(topic_original)
                            ELSE s_Unknown_Topic
        category_display == IF Truthy(category_original) THEN PyStr(category_original)
                            ELSE s_Unknown_Category
        h1 == Replace(category_template.body, tok_TOPIC_ENTRY, topic_display)
        h2 == Replace(h1, tok_CATEGORY_ENTRY, category_display)
        h3 == Replace(h2, tok_TOPIC_SLUGIFIED, slugify(topic_original))
    IN  Text(Replace(h3, tok_CATEGORY_SLUGIFIED, slugify(category_original)))

generate_topic_html(topic_original, categories, topic_template) ==
    LET topic_display == IF Truthy(topic_original) THEN PyStr(topic_original)
                         ELSE s_Unknown_Topic
        h1 == Replace(topic_template.body, tok_TOPIC_ENTRY, topic_display)
    IN  Text(Replace(h1, tok_TOPIC_SLUGIFIED, slugify(topic_original)))

\* A sort that puts elements of equal key in the reverse of their order.
SortByKey_unstable(s, key) ==
    LET Before(i, j) == \/ StrLess(key[i], key[j])
                        \/ (key[i] = key[j] /\ i > j)
        Rank(i) == Cardinality({j \in 1..Len(s) : Before(j, i)}) + 1
    IN  [r \in 1..Len(s) |-> s[CHOOSE i \in 1..Len(s) : Rank(i) = r]]


\* list.sort(key=...): stable, ascending by key[i], the text that is the
\* key of s[i]
SortByKey(s, key) ==
    LET Before(i, j) == \/ StrLess(key[i], key[j])
                        \/ (key[i] = key[j] /\ i < j)
        Rank(i) == Cardinality({j \in 1..Len(s) : Before(j, i)}) + 1
    IN  [r \in 1..Len(s) |-> s[CHOOSE i \in 1..Len(s) : Rank(i) = r]]

\* The elements of s in first-seen order, each once (the keys of a dict
\* filled by setdefault while iterating s).
FirstSeen(s) ==
    LET firsts == {i \in 1..Len(s) : \A j \in 1..(i - 1) : s[j] # s[i]}
    IN  [r \in 1..Cardinality(firsts) |->
            s[CHOOSE i \in firsts : Cardinality({j \in firsts : j < i}) = r - 1]]

\* The dict literal of collect_entries and the three defaults after it.
processed_entry(entry) ==
    LET normalized == [k \in {"name", "topic", "category"} |->
                          StrV(normalize_value(Get(entry, k)))]
        merged == [k \in {"name", "topic", "category"} \cup DOMAIN entry |->
                      IF k \in DOMAIN entry THEN entry[k] ELSE normalized[k]]
        Default(k, sentinel) == IF merged[k] = StrV(s_unknown) THEN StrV(sentinel)
                                ELSE merged[k]
    IN  [k \in DOMAIN merged |->
            IF k = "name" THEN Default(k, s_unknown_name)
            ELSE IF k = "topic" THEN Default(k, s_unknown_topic)
            ELSE IF k = "category" THEN Default(k, s_unknown_category)
            ELSE merged[k]]

\* collect_entries: [entries, crashed]; the sort raises AttributeError on a
\* name that is no str, and nothing catches it.
collect_entries(db_data) ==
    IF ~ db_data.isList THEN [entries |-> <<>>, crashed |-> FALSE]
    ELSE LET dicts == SelectSeq(db_data.data, LAMBDA item : item.t = "dict")
             global_entries == [i \in 1..Len(dicts) |-> processed_entry(dicts[i].d)]
             NameOf(e) == GetOr(e, "name", StrV(s_unknown_name))
         IN  IF \E i \in 1..Len(global_entries) : ~ IsStr(NameOf(global_entries[i]))
             THEN [entries |-> <<>>, crashed |-> TRUE]
             ELSE [entries |-> SortByKey(global_entries,
                                         [i \in 1..Len(global_entries) |->
                                             Lower(NameOf(global_entries[i]).s)]),
                   crashed |-> FALSE]

\* expected_files.setdefault(directory, set()).add(filename)
Register(expected_files, directory, filename) ==
    IF directory \in DOMAIN expected_files
    THEN [expected_files EXCEPT ![directory] = @ \cup {filename}]
    ELSE [d \in DOMAIN expected_files \cup {directory} |->
             IF d = directory THEN {filename} ELSE expected_files[d]]

\* generate_pages, the loop over one category's entries. acc is
\* [fs, log, expected_files, crashed].
RECURSIVE GenerateEntries(_, _, _, _)
GenerateEntries(acc, cat_entries, category_dir, media_template) ==
    IF cat_entries = <<>> THEN acc
    ELSE LET entry == Head(cat_entries)
             name_slug == slugify(GetOr(entry, "name", StrV(s_unknown_name)))
             media_filename == name_slug \o ext_html
             media_filepath == Append(category_dir, media_filename)
             media_html == generate_media_html(entry, media_template)
             written == write_file(acc, media_filepath, media_html)
         IN  GenerateEntries(
                 [written EXCEPT !.expected_files = Register(@, category_dir, media_filename)],
                 Tail(cat_entries), category_dir, media_template)

\* generate_pages, the loop over one topic's categories. An os.makedirs
\* that raises ends the run (nothing catches it).
RECURSIVE GenerateCategories(_, _, _, _, _, _)
GenerateCategories(acc, topic_original, topic_entries, categories, topic_dir, templates) ==
    IF categories = <<>> \/ acc.crashed THEN acc
    ELSE LET category_original == Head(categories)
             cat_entries == SelectSeq(topic_entries,
                                LAMBDA e : Get(e, "category") = category_original)
             category_slug == slugify(category_original)
             category_dir == Append(topic_dir, category_slug)
             category_summary_filename == category_slug \o ext_html
             category_summary_path == Append(topic_dir, category_summary_filename)
             category_html == generate_category_html(topic_original, category_original,
                                                     cat_entries, templates.category)
             made == [acc EXCEPT !.fs = Makedirs(@, category_dir)]
             written == write_file(made, category_summary_path, category_html)
             registered == [written EXCEPT !.expected_files =
                               Register(@, topic_dir, category_summary_filename)]
         IN  IF MakedirsFails(acc.fs, category_dir) THEN [acc EXCEPT !.crashed = TRUE]
             ELSE GenerateCategories(
                      GenerateEntries(registered, cat_entries, category_dir, templates.media),
                      topic_original, topic_entries, Tail(categories), topic_dir, templates)

\* generate_pages, the loop over the topics.
RECURSIVE GenerateTopics(_, _, _, _, _)
GenerateTopics(acc, entries, topics, templates, base_output) ==
    IF topics = <<>> \/ acc.crashed THEN acc
    ELSE LET topic_original == Head(topics)
             topic_entries == SelectSeq(entries, LAMBDA e : Get(e, "topic") = topic_original)
             categories == FirstSeen([i \in 1..Len(topic_entries) |->
                                         Get(topic_entries[i], "category")])
             topic_slug == slugify(topic_original)
             topic_dir == Append(base_output, topic_slug)
             topic_page_filename == topic_slug \o ext_html
             topic_page_path == Append(base_output, topic_page_filename)
             topic_html == generate_topic_html(topic_original, categories, templates.topic)
             made == [acc EXCEPT !.fs = Makedirs(@, topic_dir)]
             written == write_file(made, topic_page_path, topic_html)
             registered == [written EXCEPT !.expected_files =
                               Register(@, base_output, topic_page_filename)]
         IN  IF MakedirsFails(acc.fs, topic_dir) THEN [acc EXCEPT !.crashed = TRUE]
             ELSE GenerateTopics(
                      GenerateCategories(registered, topic_original, topic_entries,
                                         categories, topic_dir, templates),
                      entries, Tail(topics), templates, base_output)

\* generate_pages: st with the pages written, expected_files and crashed.
generate_pages(st, entries, templates, base_output) ==
    GenerateTopics([fs |-> st.fs, log |-> st.log, expected_files |-> <<>>, crashed |-> FALSE],
                   entries,
                   FirstSeen([i \in 1..Len(entries) |-> Get(entries[i], "topic")]),
                   templates, base_output)

\* main of content/content.py, lines 408-414: the active slugs.
ActiveTopicSlugs(entries) ==
    {slugify(GetOr(entries[i], "topic", StrV(s_unknown_topic))) : i \in 1..Len(entries)}

ActiveCategoriesByTopicSlug(entries) ==
    [topic_slug \in ActiveTopicSlugs(entries) |->
        {slugify(GetOr(entries[i], "category", StrV(s_unknown_category))) :
            i \in {j \in 1..Len(entries) :
                     slugify(GetOr(entries[j], "topic", StrV(s_unknown_topic))) = topic_slug}}]

(***************************************************************************)
(* Names and texts of the inputs and of the trees the runs start from.     *)
(***************************************************************************)
n_old_html == <<"o", "l", "d", ".", "h", "t", "m", "l">>
n_notes_txt == <<"n", "o", "t", "e", "s", ".", "t", "x", "t">>
n_old == <<"o", "l", "d">>
n_x_html == <<"x", ".", "h", "t", "m", "l">>
n_pic_jpg == <<"p", "i", "c", ".", "j", "p", "g">>
n_comedy_hour == <<"c", "o", "m", "e", "d", "y", "-", "h", "o", "u", "r">>
n_old_cat == <<"o", "l", "d", "-", "c", "a", "t">>
n_old_cat_html == <<"o", "l", "d", "-", "c", "a", "t", ".", "h", "t", "m", "l">>
n_stale_html == <<"s", "t", "a", "l", "e", ".", "h", "t", "m", "l">>
n_old_json == <<"o", "l", "d", ".", "j", "s", "o", "n">>
n_old_cat_json == <<"o", "l", "d", "-", "c", "a", "t", ".", "j", "s", "o", "n">>
n_stale_json == <<"s", "t", "a", "l", "e", ".", "j", "s", "o", "n">>
n_stand_up == <<"s", "t", "a", "n", "d", "-", "u", "p">>
t_Cool_Clip == <<"C", "o", "o", "l", " ", "C", "l", "i", "p">>
t_Comedy_Hour == <<"C", "o", "m", "e", "d", "y", " ", "H", "o", "u", "r">>
t_cool_clip == <<"c", "o", "o", "l", "_", "c", "l", "i", "p">>
t_comedy_hour == <<"c", "o", "m", "e", "d", "y", "-", "h", "o", "u", "r">>
t_Stand_Up == <<"S", "t", "a", "n", "d", " ", "U", "p">>
t_stand_up == <<"s", "t", "a", "n", "d", "_", "u", "p">>
t_Drama == <<"D", "r", "a", "m", "a">>
t_B_padded == <<" ", "B", " ">>
t_oops == <<"o", "o", "p", "s">>
t_a == <<"a">>
t_Other == <<"O", "t", "h", "e", "r">>
t_Comedy_Hour_table == <<"C", "o", "m", "e", "d", "y", "_", "H", "o", "u", "r">>
t_Empty_T == <<"E", "m", "p", "t", "y", "_", "T">>

(***************************************************************************)
(* Paths of content/content.py (main, lines 381-386).                      *)
(***************************************************************************)
content_dir == <<n_content>>

db_path == <<n_datasets, n_content_json>>

templates_dir == <<n_content, n_templates>>

media_template_path == Append(templates_dir, n_media_template)

category_template_path == Append(templates_dir, n_category_template)

topic_template_path == Append(templates_dir, n_topic_template)

(***************************************************************************)
(* The templates: text whose pieces are the placeholder tokens.            *)
(***************************************************************************)
MediaTemplate ==
    Text(<<tok_NAME_ENTRY, tok_TOPIC_ENTRY, tok_CATEGORY_ENTRY,
           tok_TOPIC_SLUGIFIED, tok_CATEGORY_SLUGIFIED, tok_NAME_SLUGIFIED>>)

CategoryTemplate ==
    Text(<<tok_TOPIC_ENTRY, tok_CATEGORY_ENTRY, tok_TOPIC_SLUGIFIED, tok_CATEGORY_SLUGIFIED>>)

TopicTemplate == Text(<<tok_TOPIC_ENTRY, tok_TOPIC_SLUGIFIED>>)

\* Content of a file no script wrote.
Foreign == Text(<<t_oops>>)

(***************************************************************************)
(* Trees a run of content/content.py may start from.                       *)
(***************************************************************************)
Tree(files, dirs) == [files |-> files, dirs |-> UNION {Prefixes(Parent(p)) : p \in DOMAIN files} \cup dirs]

CleanPageFiles ==
    (<<n_content, n_content_py>> :> Foreign) @@
    (<<n_datasets, n_datasets_py>> :> Foreign) @@
    (media_template_path :> MediaTemplate) @@
    (category_template_path :> CategoryTemplate) @@
    (topic_template_path :> TopicTemplate)

\* Left-overs at every level: orphan pages, orphan folders, the global
\* pages, files that are no pages, a media folder.
DirtyPageFiles ==
    CleanPageFiles @@
    (<<n_content, n_index_html>> :> Foreign) @@
    (<<n_content, n_old_html>> :> Foreign) @@
    (<<n_content, n_notes_txt>> :> Foreign) @@
    (<<n_content, n_old, n_x_html>> :> Foreign) @@
    (<<n_content, n_media, n_pic_jpg>> :> Foreign) @@
    (<<n_content, n_comedy_hour, n_old_cat_html>> :> Foreign) @@
    (<<n_content, n_comedy_hour, n_old_cat, n_x_html>> :> Foreign) @@
    (<<n_content, n_comedy_hour, s_unknown, n_stale_html>> :> Foreign) @@
    (<<n_content, n_comedy_hour, s_unknown, n_notes_txt>> :> Foreign)

\* The topic template is missing.
NoTemplatePageFiles ==
    [p \in DOMAIN CleanPageFiles \ {topic_template_path} |-> CleanPageFiles[p]]

PageTrees == {Tree(CleanPageFiles, {}), Tree(DirtyPageFiles, {}), Tree(NoTemplatePageFiles, {})}

(***************************************************************************)
(* Inputs of content/content.py: what datasets/content.json holds.         *)
(***************************************************************************)
Rec(name, topic, category) == DictV([name |-> name, topic |-> topic, category |-> category])

\* The spec's scenario: an empty category.
ItemCoolClip == Rec(StrV(t_Cool_Clip), StrV(t_Comedy_Hour), StrV(<<>>))

\* Another spelling of the same topic and name slugs, another category.
ItemCoolClip2 == Rec(StrV(t_cool_clip), StrV(t_comedy_hour), StrV(t_Stand_Up))

\* No name key, a null category.
ItemNoName == DictV([topic |-> StrV(t_Drama), category |-> None])

\* An untrimmed name, the word unknown as topic, a number as category.
ItemPadded == Rec(StrV(t_B_padded), StrV(s_unknown), IntV(7))

\* A topic whose slug is the name of the templates folder.
ItemTemplates == Rec(StrV(t_a), StrV(n_templates), StrV(t_Stand_Up))

\* An item that is no dict.
ItemNoDict == StrV(t_oops)

PageItems == {ItemCoolClip, ItemCoolClip2, ItemNoName, ItemPadded, ItemTemplates, ItemNoDict}

\* content.json absent
NoFile == [kind |-> "absent"]

PageInputs ==
    {NoFile, Foreign, Json(FALSE, <<>>)}
        \cup {Json(TRUE, items) : items \in DistinctSeqs(PageItems, MaxRecords)}

\* The environment puts content.json in place.
SetFile(f, p, content) ==
    IF content = NoFile THEN RemoveFiles(f, {p}) ELSE PutFile(Makedirs(f, Parent(p)), p, content)

(***************************************************************************)
(* Runs of content/content.py: main(), one action per phase.               *)
(***************************************************************************)
Stopped == {"idle", "done", "no_entries", "aborted", "crashed"}

NoRun == [kind |-> "norun"]

InitPages ==
    /\ fs \in PageTrees
    /\ db = [state |-> "missing", tables |-> <<>>]
    /\ faults = NoFaults
    /\ prog = "content"
    /\ pc = "idle"
    /\ loc = [input |-> NoRun]
    /\ log = <<>>
    /\ fs0 = fs
    /\ prev = [input |-> NoRun, pc |-> "idle"]

\* The environment: content.json is replaced and content.py is started.
PagesStart ==
    /\ prog = "content"
    /\ pc \in Stopped
    /\ \E input \in PageInputs :
          /\ fs' = SetFile(fs, db_path, input)
          /\ loc' = [input |-> input]
    /\ prev' = [input |-> loc.input, pc |-> pc]
    /\ fs0' = fs'
    /\ log' = <<>>
    /\ pc' = "load"
    /\ UNCHANGED <<db, faults, prog>>

\* main, lines 388-396: the database and the three templates, or return.
PagesLoad ==
    /\ prog = "content"
    /\ pc = "load"
    /\ LET db_data == load_database(fs, db_path)
           templates == [media    |-> load_template(fs, media_template_path),
                         category |-> load_template(fs, category_template_path),
                         topic    |-> load_template(fs, topic_template_path)]
       IN  IF \/ db_data = LoadFailed
              \/ \E k \in DOMAIN templates : templates[k] = LoadFailed
           THEN /\ pc' = "aborted"
                /\ loc' = loc
           ELSE /\ pc' = "collect"
                /\ loc' = [input |-> loc.input, db_data |-> db_data, templates |-> templates]
    /\ UNCHANGED <<fs, db, faults, prog, log, fs0, prev>>

\* main, lines 398-402: the entries, or return when there are none.
PagesCollect ==
    /\ prog = "content"
    /\ pc = "collect"
    /\ LET collected == collect_entries(loc.db_data)
       IN  /\ pc' = IF collected.crashed THEN "crashed"
                    ELSE IF collected.entries = <<>> THEN "no_entries"
                    ELSE "generate"
           /\ loc' = [input |-> loc.input, templates |-> loc.templates,
                      entries |-> collected.entries]
    /\ UNCHANGED <<fs, db, faults, prog, log, fs0, prev>>

\* main, line 404: generate_pages.
PagesGenerate ==
    /\ prog = "content"
    /\ pc = "generate"
    /\ LET generated == generate_pages([fs |-> fs, log |-> log], loc.entries,
                                       loc.templates, content_dir)
       IN  /\ fs' = generated.fs
           /\ log' = generated.log
           /\ pc' = IF generated.crashed THEN "crashed" ELSE "cleanup_files"
           /\ loc' = [input |-> loc.input, entries |-> loc.entries,
                      expected_files_by_dir |-> generated.expected_files]
    /\ UNCHANGED <<db, faults, prog, fs0, prev>>

\* main, line 406: cleanup_html_content_files.
PagesCleanupFiles ==
    /\ prog = "content"
    /\ pc = "cleanup_files"
    /\ LET cleaned == cleanup_html_content_files([fs |-> fs, log |-> log],
                                                 loc.expected_files_by_dir)
       IN  /\ fs' = cleaned.fs
           /\ log' = cleaned.log
    /\ pc' = "cleanup_folders"
    /\ UNCHANGED <<db, faults, prog, loc, fs0, prev>>

\* main, lines 408-418: the active slugs and cleanup_orphan_content_folders.
PagesCleanupFolders ==
    /\ prog = "content"
    /\ pc = "cleanup_folders"
    /\ LET active_topic_slugs == ActiveTopicSlugs(loc.entries)
           active_categories_by_topic_slug == ActiveCategoriesByTopicSlug(loc.entries)
           cleaned == cleanup_orphan_content_folders([fs |-> fs, log |-> log], content_dir,
                          active_topic_slugs, active_categories_by_topic_slug)
       IN  /\ fs' = cleaned.fs
           /\ log' = cleaned.log
           /\ loc' = [input |-> loc.input, entries |-> loc.entries,
                      expected_files_by_dir |-> loc.expected_files_by_dir,
                      active_topic_slugs |-> active_topic_slugs,
                      active_categories_by_topic_slug |-> active_categories_by_topic_slug]
    /\ pc' = "done"
    /\ UNCHANGED <<db, faults, prog, fs0, prev>>

NextPages ==
    \/ PagesStart
    \/ PagesLoad
    \/ PagesCollect
    \/ PagesGenerate
    \/ PagesCleanupFiles
    \/ PagesCleanupFolders

SpecPages == InitPages /\ [][NextPages]_vars

(***************************************************************************)
(* datasets/datasets.py: cleanup.                                          *)
(***************************************************************************)
\* A cleanup_orphan_files that looks at no extension.
cleanup_orphan_files_any(st, directory, expected_files) ==
    IF ~ IsDir(st.fs, directory) THEN st
    ELSE RemoveEach(st, directory,
                    {filename \in ListDir(st.fs, directory) : filename \notin expected_files})


cleanup_orphan_files(st, directory, expected_files) ==
    IF ~ IsDir(st.fs, directory) THEN st
    ELSE RemoveEach(st, directory,
                    {filename \in ListDir(st.fs, directory) :
                        EndsWith(filename, ext_json) /\ filename \notin expected_files})

\* Base-level names cleanup_orphan_folders skips.
known_non_topic_items == {n_templates, n_topics_json, n_content_json}

\* A step 2 of cleanup_orphan_folders that leaves the topic folders alone.
CleanupTopicFolders_skipped(st, output_base_path, topic_slugs, active_categories_by_topic_slug) == st


\* Step 2 of cleanup_orphan_folders, for the active topics in turn.
RECURSIVE CleanupTopicFolders(_, _, _, _)
CleanupTopicFolders(st, output_base_path, topic_slugs, active_categories_by_topic_slug) ==
    IF topic_slugs = <<>> THEN st
    ELSE LET topic_slug == Head(topic_slugs)
             topic_folder_path == Append(output_base_path, topic_slug)
             active == IF topic_slug \in DOMAIN active_categories_by_topic_slug
                       THEN active_categories_by_topic_slug[topic_slug] ELSE {}
             items  == ListDir(st.fs, topic_folder_path)
             dirs   == {n \in items : /\ IsDir(st.fs, Append(topic_folder_path, n))
                                      /\ n \notin active}
             jsons  == {n \in items : /\ IsFile(st.fs, Append(topic_folder_path, n))
                                      /\ EndsWith(n, ext_json)
                                      /\ n # n_categories_json
                                      /\ DropLast5(n) \notin active}
             next   == IF ~ IsDir(st.fs, topic_folder_path) THEN st
                       ELSE RemoveEach(RmtreeEach(st, topic_folder_path, dirs),
                                       topic_folder_path, jsons)
         IN  CleanupTopicFolders(next, output_base_path, Tail(topic_slugs),
                                 active_categories_by_topic_slug)

cleanup_orphan_folders(st, output_base_path, active_topic_slugs, active_categories_by_topic_slug) ==
    IF ~ IsDir(st.fs, output_base_path) THEN st
    ELSE LET items == ListDir(st.fs, output_base_path) \ known_non_topic_items
             dirs  == {n \in items : /\ IsDir(st.fs, Append(output_base_path, n))
                                     /\ n \notin active_topic_slugs}
             jsons == {n \in items : /\ IsFile(st.fs, Append(output_base_path, n))
                                     /\ EndsWith(n, ext_json)
                                     /\ DropLast5(n) \notin active_topic_slugs}
             step1 == RemoveEach(RmtreeEach(st, output_base_path, dirs),
                                 output_base_path, jsons)
         IN  CleanupTopicFolders(step1, output_base_path, SetToSeq(active_topic_slugs),
                                 active_categories_by_topic_slug)

(***************************************************************************)
(* datasets/datasets.py: one table.                                        *)
(***************************************************************************)
\* filter_entry
filter_entry(entry, keys_to_remove) ==
    [k \in DOMAIN entry \ keys_to_remove |-> entry[k]]

\* dict with key set to value
With(d, key, value) ==
    [k \in DOMAIN d \cup {key} |-> IF k = key THEN value ELSE d[k]]

\* The category slug of a row (line 294): a category that is no str has no
\* lower().
RowCategorySlug(entry_category_original) ==
    IF Truthy(entry_category_original) /\ Lower(entry_category_original.s) # s_unknown
    THEN slugify(entry_category_original)
    ELSE s_unknown_categories

\* The key a row is grouped under (line 311).
RowGroupingKey(entry_category_original) ==
    IF Truthy(entry_category_original) /\ Lower(entry_category_original.s) # s_unknown
    THEN entry_category_original
    ELSE StrV(s_unknown_category)

\* The folder slug of a group (line 327).
GroupCategorySlug(cat_original_key) ==
    IF Lower(cat_original_key.s) # s_unknown_category
    THEN slugify(cat_original_key)
    ELSE s_unknown_categories

\* Lines 276-303: the entry of one row.
RowEntry(row, table_name, topic_slug) ==
    LET normalized == [col \in DOMAIN row |-> ds_normalize_value(row[col])]
        entry == IF Truthy(Get(normalized, "file_name"))
                 THEN With(normalized, "file_name", StrV(slugify(normalized["file_name"])))
                 ELSE normalized
        entry_name_original     == PyOr(Get(entry, "name"), StrV(s_unknown_name))
        entry_topic_original    == PyOr(Get(entry, "topic"), StrV(table_name))
        entry_category_original == PyOr(Get(entry, "category"), StrV(s_unknown_category))
        category_slug == RowCategorySlug(entry_category_original)
        name_slug == slugify(entry_name_original)
        tail == topic_slug \o <<"/">> \o category_slug \o <<"/">> \o name_slug
        named == With(With(With(entry, "name", entry_name_original),
                           "topic", entry_topic_original),
                      "category", entry_category_original)
        pathed == With(named, "media_piece_path", StrV(p_content \o tail \o ext_html))
    IN  IF Truthy(Get(pathed, "screenshot_path")) THEN pathed
        ELSE With(pathed, "screenshot_path", StrV(p_media_content \o tail \o ext_jpg))

\* e.get("name", "").lower(), the sort key of lines 318 and 326
NameKey(e) == Lower(GetOr(e, "name", StrV(<<>>)).s)

\* list.sort(key=lambda e: e.get("name", "").lower())
SortByName(entries) ==
    SortByKey(entries, [i \in 1..Len(entries) |-> NameKey(entries[i])])

\* json.dumps of a list of entries, and of one entry
AsJson(entries) == Json(TRUE, [i \in 1..Len(entries) |-> DictV(entries[i])])

AsJsonObject(entry) == Json(FALSE, <<DictV(entry)>>)

\* Lines 335-343: the entry files of one category. acc is
\* [fs, log, expected_json_files].
RECURSIVE WriteEntryFiles(_, _, _)
WriteEntryFiles(acc, entries_filtered, cat_entry_folder) ==
    IF entries_filtered = <<>> THEN acc
    ELSE LET entry_filtered == Head(entries_filtered)
             entry_name_for_file == GetOr(entry_filtered, "name", StrV(s_unknown_name))
             filename == slugify(entry_name_for_file) \o ext_json
             entry_file == Append(cat_entry_folder, filename)
             written == write_file(acc, entry_file, AsJsonObject(entry_filtered))
         IN  WriteEntryFiles([written EXCEPT !.expected_json_files = @ \cup {filename}],
                             Tail(entries_filtered), cat_entry_folder)

\* Lines 325-351: the categories of a table in turn. acc is [fs, log, crashed].
RECURSIVE ProcessCategories(_, _, _, _)
ProcessCategories(acc, keys, grouped, topic_folder_base) ==
    IF keys = <<>> \/ acc.crashed THEN acc
    ELSE LET cat_original_key == Head(keys)
             entries_filtered == SortByName(grouped[cat_original_key])
             cat_slug == GroupCategorySlug(cat_original_key)
             cat_entry_folder == Append(topic_folder_base, cat_slug)
             made == [acc EXCEPT !.fs = Makedirs(@, cat_entry_folder)]
             files == WriteEntryFiles([fs |-> made.fs, log |-> made.log,
                                       expected_json_files |-> {}],
                                      entries_filtered, cat_entry_folder)
             aggregated_cat_file == Append(topic_folder_base, cat_slug \o ext_json)
             aggregated == write_file(files, aggregated_cat_file, AsJson(entries_filtered))
             cleaned == cleanup_orphan_files(aggregated, cat_entry_folder,
                                             files.expected_json_files)
         IN  IF MakedirsFails(acc.fs, cat_entry_folder) THEN [acc EXCEPT !.crashed = TRUE]
             ELSE ProcessCategories([acc EXCEPT !.fs = cleaned.fs, !.log = cleaned.log],
                                    Tail(keys), grouped, topic_folder_base)

\* What process_table_from_sqlite hands back, with the tree and the log it
\* leaves; crashed when an exception ended the run.
TableResult(acc, entries_full, active_cat_slugs, crashed) ==
    [fs |-> acc.fs, log |-> acc.log, entries_full |-> entries_full,
     active_cat_slugs |-> active_cat_slugs, crashed |-> crashed]

\* data_by_category_filtered (line 312): the filtered entries under each
\* grouping key, in the order of the rows.
GroupByCategory(grouping, all_entries_filtered) ==
    [k \in Range(grouping) |->
        LET members == {i \in 1..Len(grouping) : grouping[i] = k}
        IN  [r \in 1..Cardinality(members) |->
                all_entries_filtered[
                    CHOOSE i \in members : Cardinality({j \in members : j < i}) = r - 1]]]

\* Lines 314-351: the files of a table that has rows.
WriteTable(st, output_base_datasets, topic_slug, all_entries_full, all_entries_filtered) ==
    LET topic_folder_base == Append(output_base_datasets, topic_slug)
        table_output_file == Append(output_base_datasets, topic_slug \o ext_json)
        active_category_slugs_in_table ==
            {RowCategorySlug(all_entries_full[i]["category"]) : i \in 1..Len(all_entries_full)}
        grouping == [i \in 1..Len(all_entries_full) |->
                        RowGroupingKey(all_entries_full[i]["category"])]
        made == [fs |-> Makedirs(st.fs, topic_folder_base), log |-> st.log, crashed |-> FALSE]
        aggregate == write_file(made, table_output_file,
                                AsJson(SortByName(all_entries_filtered)))
        Finish(done) == TableResult(done, all_entries_full, active_category_slugs_in_table,
                                    done.crashed)
    IN  IF MakedirsFails(st.fs, topic_folder_base)
        THEN TableResult(st, <<>>, {}, TRUE)
        ELSE IF \E i \in 1..Len(all_entries_filtered) :
                   ~ IsStr(GetOr(all_entries_filtered[i], "name", StrV(<<>>)))
        THEN TableResult(made, <<>>, {}, TRUE)
        ELSE Finish(ProcessCategories(aggregate, FirstSeen(grouping),
                                      GroupByCategory(grouping, all_entries_filtered),
                                      topic_folder_base))

\* Lines 275-312: the entries of the rows, full and filtered.
ProcessRows(st, table, output_base_datasets, topic_slug, keys_to_remove, all_entries_full) ==
    WriteTable(st, output_base_datasets, topic_slug, all_entries_full,
               [i \in 1..Len(all_entries_full) |->
                   filter_entry(all_entries_full[i], keys_to_remove)])

\* process_table_from_sqlite. The queries of a table of an intact database
\* succeed. A category that is neither empty nor a str raises at line 294.
process_table_from_sqlite(st, table, output_base_datasets, blacklist_keys) ==
    LET topic_slug == slugify(StrV(table.name))
        table_output_file == Append(output_base_datasets, topic_slug \o ext_json)
        rows == table.rows
        CategoryOf(i) == PyOr(ds_normalize_value(Get(rows[i], "category")),
                              StrV(s_unknown_category))
    IN  IF rows = <<>>
        THEN TableResult(write_file(st, table_output_file, Json(TRUE, <<>>)), <<>>, {}, FALSE)
        ELSE IF \E i \in 1..Len(rows) : ~ IsStr(CategoryOf(i))
        THEN TableResult(st, <<>>, {}, TRUE)
        ELSE ProcessRows(st, table, output_base_datasets, topic_slug,
                         blacklist_keys \cup table.primary_keys,
                         [i \in 1..Len(rows) |-> RowEntry(rows[i], table.name, topic_slug)])

(***************************************************************************)
(* datasets/datasets.py: the global lists.                                 *)
(***************************************************************************)
\* sorted(list(set of str values))
SortedValues(values) ==
    LET listed == SetToSeq(values)
    IN  SortByKey(listed, [i \in 1..Len(listed) |-> listed[i].s])

\* generate_category_lists: acc is [fs, log, crashed]. A topic slug enters
\* categories_by_topic_slug together with its first category, so the branch
\* for an empty set of categories is never taken.
RECURSIVE WriteCategoryLists(_, _, _, _)
WriteCategoryLists(acc, topic_slugs, categories_by_topic_slug, output_base_datasets) ==
    IF topic_slugs = <<>> \/ acc.crashed THEN acc
    ELSE LET topic_slug == Head(topic_slugs)
             topic_folder == Append(output_base_datasets, topic_slug)
             output_file == Append(topic_folder, n_categories_json)
             made == [acc EXCEPT !.fs = Makedirs(@, topic_folder)]
             content_str == Json(TRUE, SortedValues(categories_by_topic_slug[topic_slug]))
         IN  IF MakedirsFails(acc.fs, topic_folder) THEN [acc EXCEPT !.crashed = TRUE]
             ELSE WriteCategoryLists(write_file(made, output_file, content_str),
                                     Tail(topic_slugs), categories_by_topic_slug,
                                     output_base_datasets)

generate_category_lists(acc, global_entries, output_base_datasets) ==
    LET TopicSlugOf(entry) == slugify(PyOr(Get(entry, "topic"), StrV(s_unknown_topic)))
        CategoryOf(entry) == PyOr(Get(entry, "category"), StrV(s_unknown_category))
        listed == SelectSeq(global_entries,
                            LAMBDA e : Truthy(CategoryOf(e))
                                       /\ CategoryOf(e) # StrV(s_unknown_category))
        topic_slugs == FirstSeen([i \in 1..Len(listed) |-> TopicSlugOf(listed[i])])
        categories_by_topic_slug ==
            [topic_slug \in Range(topic_slugs) |->
                {CategoryOf(listed[i]) :
                    i \in {j \in 1..Len(listed) : TopicSlugOf(listed[j]) = topic_slug}}]
    IN  WriteCategoryLists(acc, topic_slugs, categories_by_topic_slug, output_base_datasets)

generate_topics_list(acc, global_entries, output_base_datasets) ==
    LET topics_set_original ==
            {Get(global_entries[i], "topic") :
                i \in {j \in 1..Len(global_entries) :
                         /\ Truthy(Get(global_entries[j], "topic"))
                         /\ Get(global_entries[j], "topic") # StrV(s_unknown_topic)}}
        output_file == Append(output_base_datasets, n_topics_json)
    IN  write_file(acc, output_file, Json(TRUE, SortedValues(topics_set_original)))

\* load_blacklist: the keys to exclude; none when the file is missing or no
\* JSON list. An item of the list is a record whose field key names a column.
load_blacklist(f, file_path) ==
    IF IsFile(f, file_path) /\ f.files[file_path].kind = "json" /\ f.files[file_path].isList
    THEN {f.files[file_path].data[i].key : i \in 1..Len(f.files[file_path].data)}
    ELSE {}

(***************************************************************************)
(* Paths of datasets/datasets.py (main, lines 417-423 and 464).            *)
(***************************************************************************)
datasets_dir == <<n_datasets>>

output_base_datasets == <<n_datasets, n_content>>

blacklist_file == <<n_datasets, n_blacklist_json>>

universal_file == <<n_datasets, n_content_json>>

(***************************************************************************)
(* Inputs of datasets/datasets.py: the database. A table has a name, the   *)
(* names of its primary key columns and its rows, each a function from     *)
(* column names to values (text or NULL).                                  *)
(***************************************************************************)
Row(id, name, topic, category) ==
    [id |-> IntV(id), name |-> name, topic |-> topic, category |-> category]

\* An item of the pool: a row of a table, or (NoRow) the table itself.
NoRow == [kind |-> "norow"]

\* The spec's scenario: an empty category.
DataCoolClip == [table |-> t_Comedy_Hour_table,
                 row |-> Row(1, StrV(t_Cool_Clip), None, StrV(<<>>))]

\* A row whose topic column names another topic.
DataOther == [table |-> t_Comedy_Hour_table,
              row |-> Row(2, StrV(t_Other), StrV(t_Drama), StrV(t_Stand_Up))]

\* Another spelling of the category slug stand-up and of the name slug
\* cool-clip.
DataCoolClip2 == [table |-> t_Comedy_Hour_table,
                  row |-> Row(3, StrV(t_cool_clip), None, StrV(t_stand_up))]

\* A second topic: no name, the word unknown as category.
DataNoName == [table |-> t_Drama, row |-> Row(1, None, None, StrV(s_unknown))]

\* A table without rows.
DataEmptyTable == [table |-> t_Empty_T, row |-> NoRow]

DataItems == {DataCoolClip, DataOther, DataCoolClip2, DataNoName, DataEmptyTable}

\* The tables that hold the items, in first-seen order.
TablesOf(items) ==
    LET names == FirstSeen([i \in 1..Len(items) |-> items[i].table])
    IN  [t \in 1..Len(names) |->
            LET mine == SelectSeq(items, LAMBDA it : it.table = names[t] /\ it.row # NoRow)
            IN  [name |-> names[t], primary_keys |-> {"id"},
                 rows |-> [r \in 1..Len(mine) |-> mine[r].row]]]

DataInputs ==
    {[state |-> "missing", tables |-> <<>>], [state |-> "corrupt", tables |-> <<>>]}
        \cup {[state |-> "ok", tables |-> TablesOf(items)] :
                 items \in DistinctSeqs(DataItems, MaxRecords)}

(***************************************************************************)
(* Trees a run of datasets/datasets.py may start from.                     *)
(***************************************************************************)
DirtyDataFiles ==
    CleanPageFiles @@
    (<<n_datasets, n_content, n_topics_json>> :> Foreign) @@
    (<<n_datasets, n_content, n_content_json>> :> Foreign) @@
    (<<n_datasets, n_content, n_old_json>> :> Foreign) @@
    (<<n_datasets, n_content, n_notes_txt>> :> Foreign) @@
    (<<n_datasets, n_content, n_old, n_stale_json>> :> Foreign) @@
    (<<n_datasets, n_content, n_comedy_hour, n_categories_json>> :> Foreign) @@
    (<<n_datasets, n_content, n_comedy_hour, n_old_cat_json>> :> Foreign) @@
    (<<n_datasets, n_content, n_comedy_hour, n_old_cat, n_stale_json>> :> Foreign) @@
    (<<n_datasets, n_content, n_comedy_hour, n_stand_up, n_stale_json>> :> Foreign) @@
    (<<n_datasets, n_content, n_comedy_hour, n_stand_up, n_notes_txt>> :> Foreign)

DataTrees == {Tree(CleanPageFiles, {}), Tree(DirtyDataFiles, {})}

(***************************************************************************)
(* Runs of datasets/datasets.py: main(), one action per phase and one per  *)
(* table.                                                                  *)
(***************************************************************************)
InitData ==
    /\ fs \in DataTrees
    /\ db = [state |-> "missing", tables |-> <<>>]
    /\ faults = NoFaults
    /\ prog = "datasets"
    /\ pc = "idle"
    /\ loc = [input |-> NoRun]
    /\ log = <<>>
    /\ fs0 = fs
    /\ prev = [input |-> NoRun, pc |-> "idle"]

\* The environment: the database is replaced and datasets.py is started.
DataStart ==
    /\ prog = "datasets"
    /\ pc \in Stopped
    /\ \E input \in DataInputs :
          /\ db' = input
          /\ loc' = [input |-> input]
    /\ prev' = [input |-> loc.input, pc |-> pc]
    /\ fs0' = fs
    /\ log' = <<>>
    /\ pc' = "setup"
    /\ UNCHANGED <<fs, faults, prog>>

\* main, lines 417-445: the output folder, the blacklist, the connection and
\* the list of tables. sqlite3.connect creates a database that is missing;
\* a file that is no database fails the first query and main returns.
DataSetup ==
    /\ prog = "datasets"
    /\ pc = "setup"
    /\ IF MakedirsFails(fs, output_base_datasets)
       THEN /\ pc' = "crashed"
            /\ UNCHANGED <<fs, db, loc>>
       ELSE /\ fs' = Makedirs(fs, output_base_datasets)
            /\ IF db.state = "corrupt"
               THEN /\ pc' = "aborted"
                    /\ UNCHANGED <<db, loc>>
               ELSE /\ db' = [db EXCEPT !.state = "ok"]
                    /\ pc' = IF db.tables = <<>> THEN "aggregate" ELSE "tables"
                    /\ loc' = [input |-> loc.input,
                               blacklist_keys |-> load_blacklist(fs, blacklist_file),
                               tables |-> db.tables,
                               global_entries |-> <<>>,
                               all_active_topic_slugs |-> {},
                               all_active_categories_by_topic_slug |-> <<>>]
    /\ UNCHANGED <<faults, prog, log, fs0, prev>>

\* main, lines 449-457: what the loop keeps of one table.
KeepTable(l, topic_slug_for_table, processed) ==
    LET known == l.all_active_categories_by_topic_slug
        before == IF topic_slug_for_table \in DOMAIN known
                  THEN known[topic_slug_for_table] ELSE {}
    IN  IF processed.entries_full = <<>>
        THEN [l EXCEPT !.tables = Tail(@)]
        ELSE [l EXCEPT
                 !.tables = Tail(@),
                 !.global_entries = @ \o processed.entries_full,
                 !.all_active_topic_slugs = @ \cup {topic_slug_for_table},
                 !.all_active_categories_by_topic_slug =
                     With(@, topic_slug_for_table, before \cup processed.active_cat_slugs)]

\* The state after one turn of the loop over the tables.
AfterTable(processed, table) ==
    /\ fs' = processed.fs
    /\ log' = processed.log
    /\ pc' = IF processed.crashed THEN "crashed"
             ELSE IF Tail(loc.tables) = <<>> THEN "aggregate"
             ELSE "tables"
    /\ loc' = KeepTable(loc, slugify(StrV(table.name)), processed)

\* main, lines 447-459: one turn of the loop over the tables.
DataProcessTable ==
    /\ prog = "datasets"
    /\ pc = "tables"
    /\ AfterTable(process_table_from_sqlite([fs |-> fs, log |-> log], Head(loc.tables),
                                            output_base_datasets, loc.blacklist_keys),
                  Head(loc.tables))
    /\ UNCHANGED <<db, faults, prog, fs0, prev>>

\* os.remove behind os.path.exists (line 480-481): nothing catches a failure.
RemoveIfExists(acc, path) ==
    IF ~ Exists(acc.fs, path) THEN acc
    ELSE IF IsDir(acc.fs, path) \/ path \in faults.remove THEN [acc EXCEPT !.crashed = TRUE]
    ELSE Say([acc EXCEPT !.fs = RemoveFiles(@, {path})], "deleted", path)

\* main, lines 461-481: content.json and the global lists, or their removal
\* when no table has an entry. The sort raises on a topic that is no str.
DataAggregate ==
    /\ prog = "datasets"
    /\ pc = "aggregate"
    /\ LET start == [fs |-> fs, log |-> log, crashed |-> FALSE]
           TopicOf(e) == GetOr(e, "topic", StrV(<<>>))
           sorted == SortByKey(loc.global_entries,
                               [i \in 1..Len(loc.global_entries) |->
                                   Lower(TopicOf(loc.global_entries[i]).s) \o <<"\t">>
                                       \o NameKey(loc.global_entries[i])])
           universal == write_file(start, universal_file, AsJson(sorted))
           lists == generate_category_lists(universal, sorted, output_base_datasets)
           topics == IF lists.crashed THEN lists
                     ELSE generate_topics_list(lists, sorted, output_base_datasets)
           removed == LET first == RemoveIfExists(start, universal_file)
                      IN  IF first.crashed THEN first
                          ELSE RemoveIfExists(first,
                                              Append(output_base_datasets, n_topics_json))
           unsortable == \E i \in 1..Len(loc.global_entries) :
                            ~ IsStr(TopicOf(loc.global_entries[i]))
           result == IF loc.global_entries = <<>> THEN removed
                     ELSE IF unsortable THEN [start EXCEPT !.crashed = TRUE]
                     ELSE topics
       IN  /\ fs' = result.fs
           /\ log' = result.log
           /\ pc' = IF result.crashed THEN "crashed" ELSE "cleanup"
           /\ loc' = IF loc.global_entries = <<>> \/ unsortable THEN loc
                     ELSE [loc EXCEPT !.global_entries = sorted]
    /\ UNCHANGED <<db, faults, prog, fs0, prev>>

\* main, lines 484-494: cleanup_orphan_folders.
DataCleanup ==
    /\ prog = "datasets"
    /\ pc = "cleanup"
    /\ LET cleaned == cleanup_orphan_folders([fs |-> fs, log |-> log], output_base_datasets,
                                             loc.all_active_topic_slugs,
                                             loc.all_active_categories_by_topic_slug)
       IN  /\ fs' = cleaned.fs
           /\ log' = cleaned.log
    /\ pc' = "done"
    /\ UNCHANGED <<db, faults, prog, loc, fs0, prev>>

NextData ==
    \/ DataStart
    \/ DataSetup
    \/ DataProcessTable
    \/ DataAggregate
    \/ DataCleanup

SpecData == InitData /\ [][NextData]_vars

(***************************************************************************)
(* slugify on its own: the inputs are None, numbers, the texts of at most  *)
(* MaxSlugLen characters of SlugAlphabet and some texts of the scripts.    *)
(***************************************************************************)
\* The longest text drawn from SlugAlphabet.
MaxSlugLen == 3

\* An upper and a lower case letter, a digit, the two characters that become
\* hyphens, the two that are trimmed, one that is dropped.
SlugAlphabet == {"A", "b", "1", " ", "_", "-", ".", "!"}

TextsUpTo(S, n) == UNION {[1..k -> S] : k \in 0..n}

SlugInputs ==
    {None, IntV(0), IntV(7)}
        \cup {StrV(s) : s \in TextsUpTo(SlugAlphabet, MaxSlugLen)}
        \cup {StrV(s) : s \in {s_unknown, s_Unknown_Name, t_Cool_Clip, t_Comedy_Hour_table,
                               n_index_html, slugify(StrV(t_B_padded))}}

InitSlug ==
    /\ fs = Tree(CleanPageFiles, {})
    /\ db = [state |-> "missing", tables |-> <<>>]
    /\ faults = NoFaults
    /\ prog = "slugify"
    /\ pc = "idle"
    /\ \E text \in SlugInputs : loc = [input |-> text]
    /\ log = <<>>
    /\ fs0 = fs
    /\ prev = [input |-> NoRun, pc |-> "idle"]

\* One call of slugify.
SlugifyCall ==
    /\ prog = "slugify"
    /\ pc = "idle"
    /\ pc' = "returned"
    /\ loc' = [input |-> loc.input, result |-> slugify(loc.input)]
    /\ UNCHANGED <<fs, db, faults, prog, log, fs0, prev>>

\* A second call, on the result of the first.
SlugifyAgain ==
    /\ prog = "slugify"
    /\ pc = "returned"
    /\ pc' = "returned_again"
    /\ loc' = [input |-> loc.input, result |-> loc.result,
               again |-> slugify(StrV(loc.result))]
    /\ UNCHANGED <<fs, db, faults, prog, log, fs0, prev>>

NextSlug ==
    \/ SlugifyCall
    \/ SlugifyAgain

SpecSlug == InitSlug /\ [][NextSlug]_vars


(***************************************************************************)
(* write_file on its own: one call and a second call with the same         *)
(* arguments, on a tree, a path and a content drawn from small sets, with  *)
(* and without a failing read or write of the path.                        *)
(***************************************************************************)
\* A page that exists in WriteTree.
write_path_present == <<n_content, n_comedy_hour \o ext_html>>

\* A page whose folders do not exist yet.
write_path_new == <<n_content, slugify(StrV(t_Drama)), s_unknown, t_a \o ext_html>>

\* A path below a file.
write_path_below_file == <<n_content, n_content_py, n_x_html>>

\* A path that is a folder.
write_path_folder == <<n_content, n_comedy_hour>>

WritePaths == {write_path_present, write_path_new, write_path_below_file, write_path_folder}

PageOne == Text(<<t_Comedy_Hour, n_comedy_hour>>)

PageTwo == Text(<<t_comedy_hour, n_comedy_hour>>)

WriteContents == {PageOne, PageTwo, NoContent}

WriteTrees ==
    {Tree(CleanPageFiles, {}),
     Tree(DirtyPageFiles @@ (write_path_present :> PageOne), {})}

WriteFaults ==
    {NoFaults}
        \cup {[NoFaults EXCEPT !.read = {p}] : p \in {write_path_present}}
        \cup {[NoFaults EXCEPT !.write = {p}] : p \in {write_path_present, write_path_new}}

InitWrite ==
    /\ fs \in WriteTrees
    /\ db = [state |-> "missing", tables |-> <<>>]
    /\ faults \in WriteFaults
    /\ prog = "write_file"
    /\ pc = "idle"
    /\ \E file_path \in WritePaths, content_str \in WriteContents :
          loc = [file_path |-> file_path, content_str |-> content_str]
    /\ log = <<>>
    /\ fs0 = fs
    /\ prev = [input |-> NoRun, pc |-> "idle"]

\* One call of write_file; loc.before is the tree the call found.
WriteCall ==
    /\ prog = "write_file"
    /\ pc \in {"idle", "returned"}
    /\ LET called == write_file([fs |-> fs, log |-> log], loc.file_path, loc.content_str)
       IN  /\ fs' = called.fs
           /\ log' = called.log
    /\ pc' = IF pc = "idle" THEN "returned" ELSE "returned_again"
    /\ loc' = [file_path |-> loc.file_path, content_str |-> loc.content_str, before |-> fs]
    /\ UNCHANGED <<db, faults, prog, fs0, prev>>

NextWrite == WriteCall

SpecWrite == InitWrite /\ [][NextWrite]_vars


(***************************************************************************)
(* Runs of content/content.py on a disk that fails: open(path, "w") or     *)
(* os.remove / shutil.rmtree raise for some paths, all through the runs.   *)
(***************************************************************************)
\* Pages of an earlier run are there, with another content.
fault_topic_page == <<n_content, n_comedy_hour \o ext_html>>

fault_entry_page == <<n_content, n_comedy_hour, s_unknown, slugify(StrV(t_Cool_Clip)) \o ext_html>>

FaultyPageFiles ==
    DirtyPageFiles @@ (fault_topic_page :> Foreign) @@ (fault_entry_page :> Foreign)

PageFaults ==
    {[read |-> {}, write |-> {fault_topic_page}, remove |-> {}],
     [read |-> {}, write |-> {fault_entry_page}, remove |-> {}]}

InitFaultyPages ==
    /\ fs = Tree(FaultyPageFiles, {})
    /\ db = [state |-> "missing", tables |-> <<>>]
    /\ faults \in PageFaults
    /\ prog = "content"
    /\ pc = "idle"
    /\ loc = [input |-> NoRun]
    /\ log = <<>>
    /\ fs0 = fs
    /\ prev = [input |-> NoRun, pc |-> "idle"]

SpecFaultyPages == InitFaultyPages /\ [][NextPages]_vars


(***************************************************************************)
(* The entry-level pruning on its own: cleanup_orphan_html_files of        *)
(* content.py and cleanup_orphan_files of datasets.py, called once on a    *)
(* directory with a set of expected names.                                 *)
(***************************************************************************)
n_cool_clip_html == slugify(StrV(t_Cool_Clip)) \o ext_html

n_cool_clip_json == slugify(StrV(t_Cool_Clip)) \o ext_json

prune_page_dir == <<n_content, n_comedy_hour, s_unknown>>

prune_data_dir == <<n_datasets, n_content, n_comedy_hour, n_stand_up>>

prune_missing_dir == <<n_content, n_comedy_hour, n_stand_up>>

PruneDirs == {prune_page_dir, prune_data_dir, prune_missing_dir}

\* Both trees with their left-overs, and pages and entries of a run.
PruneFiles ==
    DirtyPageFiles @@ DirtyDataFiles @@
    (Append(prune_page_dir, n_cool_clip_html) :> Foreign) @@
    (Append(prune_page_dir, n_x_html) :> Foreign) @@
    (Append(prune_data_dir, n_cool_clip_json) :> Foreign) @@
    (Append(prune_data_dir, n_old_json) :> Foreign)

PruneNames == {n_cool_clip_html, n_stale_html, n_x_html, n_cool_clip_json, n_stale_json}

PruneFaults ==
    {NoFaults,
     [read |-> {}, write |-> {}, remove |-> {Append(prune_page_dir, n_stale_html)}],
     [read |-> {}, write |-> {}, remove |-> {Append(prune_data_dir, n_stale_json)}]}

InitPrune ==
    /\ fs = Tree(PruneFiles, {})
    /\ db = [state |-> "missing", tables |-> <<>>]
    /\ faults \in PruneFaults
    /\ prog = "prune"
    /\ pc = "idle"
    /\ \E call \in {"cleanup_orphan_html_files", "cleanup_orphan_files"} :
       \E directory \in PruneDirs :
       \E expected_files \in SUBSET PruneNames :
          loc = [call |-> call, directory |-> directory, expected_files |-> expected_files]
    /\ log = <<>>
    /\ fs0 = fs
    /\ prev = [input |-> NoRun, pc |-> "idle"]

\* One call of the pruning function.
PruneCall ==
    /\ prog = "prune"
    /\ pc = "idle"
    /\ LET st == [fs |-> fs, log |-> log]
           pruned == IF loc.call = "cleanup_orphan_html_files"
                     THEN cleanup_orphan_html_files(st, loc.directory, loc.expected_files)
                     ELSE cleanup_orphan_files(st, loc.directory, loc.expected_files)
       IN  /\ fs' = pruned.fs
           /\ log' = pruned.log
    /\ pc' = "returned"
    /\ UNCHANGED <<db, faults, prog, loc, fs0, prev>>

NextPrune == PruneCall

SpecPrune == InitPrune /\ [][NextPrune]_vars


(***************************************************************************)
(* The folder pruning on its own: cleanup_orphan_content_folders of        *)
(* content.py and cleanup_orphan_folders of datasets.py, called once with  *)
(* a set of active topic slugs and their active category slugs.            *)
(***************************************************************************)
page_topic_dir == <<n_content, n_comedy_hour>>

data_topic_dir == <<n_datasets, n_content, n_comedy_hour>>

\* Both trees with their left-overs, and in the topic folder the page and
\* the aggregate of a category, and notes.
FolderFiles ==
    PruneFiles @@
    (Append(page_topic_dir, s_unknown \o ext_html) :> Foreign) @@
    (Append(page_topic_dir, n_notes_txt) :> Foreign) @@
    (Append(data_topic_dir, n_stand_up \o ext_json) :> Foreign) @@
    (Append(data_topic_dir, n_notes_txt) :> Foreign)

FolderTopics == {n_comedy_hour, slugify(StrV(t_Drama)), n_old}

FolderCategories == {s_unknown, n_stand_up, n_old_cat}

\* os.remove fails for one orphan file and shutil.rmtree for one orphan
\* folder of a topic folder.
FolderFaults ==
    {NoFaults,
     [read |-> {}, write |-> {},
      remove |-> {Append(page_topic_dir, n_old_cat_html), Append(data_topic_dir, n_old_cat)}],
     [read |-> {}, write |-> {},
      remove |-> {Append(page_topic_dir, n_old_cat), Append(data_topic_dir, n_old_cat_json)}]}

InitFolders ==
    /\ fs = Tree(FolderFiles, {})
    /\ db = [state |-> "missing", tables |-> <<>>]
    /\ faults \in FolderFaults
    /\ prog = "prune_folders"
    /\ pc = "idle"
    /\ \E call \in {"cleanup_orphan_content_folders", "cleanup_orphan_folders"} :
       \E active_topic_slugs \in SUBSET FolderTopics :
       \E categories \in SUBSET FolderCategories :
          loc = [call |-> call,
                 output_base_path |-> IF call = "cleanup_orphan_content_folders"
                                      THEN content_dir ELSE output_base_datasets,
                 active_topic_slugs |-> active_topic_slugs,
                 active_categories_by_topic_slug |->
                     [t \in active_topic_slugs \cap {n_comedy_hour} |-> categories]]
    /\ log = <<>>
    /\ fs0 = fs
    /\ prev = [input |-> NoRun, pc |-> "idle"]

\* One call of the folder pruning.
FoldersCall ==
    /\ prog = "prune_folders"
    /\ pc = "idle"
    /\ LET st == [fs |-> fs, log |-> log]
           pruned == IF loc.call = "cleanup_orphan_content_folders"
                     THEN cleanup_orphan_content_folders(st, loc.output_base_path,
                              loc.active_topic_slugs, loc.active_categories_by_topic_slug)
                     ELSE cleanup_orphan_folders(st, loc.output_base_path,
                              loc.active_topic_slugs, loc.active_categories_by_topic_slug)
       IN  /\ fs' = pruned.fs
           /\ log' = pruned.log
    /\ pc' = "returned"
    /\ UNCHANGED <<db, faults, prog, loc, fs0, prev>>

NextFolders == FoldersCall

SpecFolders == InitFolders /\ [][NextFolders]_vars


(***************************************************************************)
(* Runs of both scripts on inputs whose categories hold several entries,   *)
(* with names that differ in case only.                                    *)
(***************************************************************************)
MaxLeaf == 3

t_b == <<"b">>

t_B == <<"B">>

\* A name and a category; the topic is Comedy Hour.
LeafItems ==
    {[name |-> t_B, category |-> StrV(t_Stand_Up)],
     [name |-> t_b, category |-> StrV(t_Stand_Up)],
     [name |-> t_a, category |-> StrV(t_Stand_Up)],
     [name |-> t_a, category |-> StrV(<<>>)]}

LeafLists == DistinctSeqs(LeafItems, MaxLeaf) \ {<<>>}

\* content.json with the items as records.
LeafRecords(items) ==
    Json(TRUE, [i \in 1..Len(items) |->
                   Rec(StrV(items[i].name), StrV(t_Comedy_Hour), items[i].category)])

\* The database with the items as the rows of the table Comedy_Hour.
LeafTables(items) ==
    [state |-> "ok",
     tables |-> <<[name |-> t_Comedy_Hour_table, primary_keys |-> {"id"},
                   rows |-> [i \in 1..Len(items) |->
                                Row(i, StrV(items[i].name), None, items[i].category)]]>>]

\* content.py or datasets.py has just been started on such an input.
InitLeaves ==
    /\ faults = NoFaults
    /\ log = <<>>
    /\ prev = [input |-> NoRun, pc |-> "idle"]
    /\ \E items \in LeafLists :
          \/ /\ prog = "content"
             /\ pc = "load"
             /\ fs = SetFile(Tree(CleanPageFiles, {}), db_path, LeafRecords(items))
             /\ db = [state |-> "missing", tables |-> <<>>]
             /\ loc = [input |-> LeafRecords(items)]
          \/ /\ prog = "datasets"
             /\ pc = "setup"
             /\ fs = Tree(CleanPageFiles, {})
             /\ db = LeafTables(items)
             /\ loc = [input |-> LeafTables(items)]
    /\ fs0 = fs

NextLeaves ==
    \/ PagesStart
    \/ PagesLoad
    \/ PagesCollect
    \/ PagesGenerate
    \/ PagesCleanupFiles
    \/ PagesCleanupFolders
    \/ DataStart
    \/ DataSetup
    \/ DataProcessTable
    \/ DataAggregate
    \/ DataCleanup

SpecLeaves == InitLeaves /\ [][NextLeaves]_vars


(***************************************************************************)
(* Runs of content/content.py on a disk where some deletions fail:         *)
(* os.remove of a base-level page and of a page of a category folder, and  *)
(* shutil.rmtree of a category folder, raise OSError through all the runs. *)
(***************************************************************************)
undeletable_page == <<n_content, n_old_html>>

undeletable_folder == <<n_content, n_comedy_hour, n_old_cat>>

undeletable_entry == <<n_content, n_comedy_hour, s_unknown, n_stale_html>>

InitUndeletablePages ==
    /\ fs = Tree(FaultyPageFiles, {})
    /\ db = [state |-> "missing", tables |-> <<>>]
    /\ faults = [read |-> {}, write |-> {},
                 remove |-> {undeletable_page, undeletable_folder, undeletable_entry}]
    /\ prog = "content"
    /\ pc = "idle"
    /\ loc = [input |-> NoRun]
    /\ log = <<>>
    /\ fs0 = fs
    /\ prev = [input |-> NoRun, pc |-> "idle"]

SpecUndeletablePages == InitUndeletablePages /\ [][NextPages]_vars


(***************************************************************************)
(* Runs of content/content.py on lists with an item that is no dict and    *)
(* with a record whose name is a number.                                   *)
(***************************************************************************)
\* A record with a number for a name.
ItemNumberName == Rec(IntV(7), StrV(t_Comedy_Hour), StrV(t_Stand_Up))

OddItems == {ItemNoDict, ItemCoolClip, ItemNumberName}

\* content.py has just been started on a list of such items.
InitOddPages ==
    /\ \E items \in DistinctSeqs(OddItems, MaxRecords) \ {<<>>} :
          /\ fs = SetFile(Tree(CleanPageFiles, {}), db_path, Json(TRUE, items))
          /\ loc = [input |-> Json(TRUE, items)]
    /\ db = [state |-> "missing", tables |-> <<>>]
    /\ faults = NoFaults
    /\ prog = "content"
    /\ pc = "load"
    /\ log = <<>>
    /\ fs0 = fs
    /\ prev = [input |-> NoRun, pc |-> "idle"]

SpecOddPages == InitOddPages /\ [][NextPages]_vars


(***************************************************************************)
(* Runs of content/content.py on records whose topics, or whose categories *)
(* within one topic, are different texts with the same slug.               *)
(***************************************************************************)
\* Another spelling of the category slug stand-up in the topic Comedy Hour.
ItemSameCategorySlug == Rec(StrV(t_b), StrV(t_Comedy_Hour), StrV(t_stand_up))

\* Another spelling of the topic slug comedy-hour, with the same category.
ItemSameTopicSlug == Rec(StrV(t_B), StrV(t_comedy_hour), StrV(t_Stand_Up))

CollidingItems ==
    {Rec(StrV(t_a), StrV(t_Comedy_Hour), StrV(t_Stand_Up)),
     ItemSameCategorySlug, ItemSameTopicSlug}

\* content.py has just been started on a list of such items.
InitCollidingPages ==
    /\ \E items \in DistinctSeqs(CollidingItems, MaxRecords) \ {<<>>} :
          /\ fs = SetFile(Tree(CleanPageFiles, {}), db_path, Json(TRUE, items))
          /\ loc = [input |-> Json(TRUE, items)]
    /\ db = [state |-> "missing", tables |-> <<>>]
    /\ faults = NoFaults
    /\ prog = "content"
    /\ pc = "load"
    /\ log = <<>>
    /\ fs0 = fs
    /\ prev = [input |-> NoRun, pc |-> "idle"]

SpecCollidingPages == InitCollidingPages /\ [][NextPages]_vars


(***************************************************************************)
(* update.py: the launcher. run_script starts a script and waits for its   *)
(* end; a script that ends on an exception nothing catches exits with      *)
(* status 1, one that returns from main with status 0. The log also holds  *)
(* what the launcher prints: "running" (with the script), "succeeded",     *)
(* "error_occurred" (with the script).                                     *)
(***************************************************************************)
datasets_script == <<n_datasets, n_datasets_py>>

content_script == <<n_content, n_content_py>>

\* The status a script exits with, from where its main stopped.
ExitStatus(stopped_at) == IF stopped_at = "crashed" THEN 1 ELSE 0

\* A run_script without check=True: no status raises.
RaisesCalledProcessError_never(returncode) == FALSE


\* subprocess.run(..., check=True) raises CalledProcessError on this status.
RaisesCalledProcessError(returncode) == returncode # 0

\* A category spelled Unknown, and one that is the word unknown.
t_Unknown == <<"U", "n", "k", "n", "o", "w", "n">>

DataUnknownCategory == [table |-> t_Comedy_Hour_table,
                        row |-> Row(4, StrV(t_Other), None, StrV(t_Unknown))]

UpdateItems == DataItems \cup {DataUnknownCategory}

UpdateInputs ==
    {[state |-> "missing", tables |-> <<>>], [state |-> "corrupt", tables |-> <<>>]}
        \cup {[state |-> "ok", tables |-> TablesOf(items)] :
                 items \in DistinctSeqs(UpdateItems, MaxRecords)}

\* Left-overs in both trees, with files that are neither pages nor data at
\* the base, in a topic, in a category and in orphan folders.
DirtyBothFiles ==
    DirtyDataFiles @@ DirtyPageFiles @@
    (<<n_content, n_comedy_hour, n_notes_txt>> :> Foreign) @@
    (<<n_content, n_comedy_hour, n_stand_up, n_notes_txt>> :> Foreign) @@
    (<<n_content, n_comedy_hour, n_stand_up, n_stale_html>> :> Foreign) @@
    (<<n_content, n_old, n_notes_txt>> :> Foreign) @@
    (<<n_content, n_comedy_hour, n_old_cat, n_notes_txt>> :> Foreign) @@
    (<<n_datasets, n_content, n_comedy_hour, n_notes_txt>> :> Foreign) @@
    (<<n_datasets, n_content, n_old, n_notes_txt>> :> Foreign) @@
    (<<n_datasets, n_content, n_comedy_hour, n_old_cat, n_notes_txt>> :> Foreign)

\* Trees the launcher may start from: clean, with left-overs in the data
\* tree, with left-overs in both trees, with a file where datasets.py makes
\* its output folder, with a file where content.py makes a topic folder.
UpdateTrees ==
    {Tree(CleanPageFiles, {}),
     Tree(DirtyDataFiles, {}),
     Tree(DirtyBothFiles, {}),
     Tree(CleanPageFiles @@ (output_base_datasets :> Foreign), {}),
     Tree(CleanPageFiles @@ (<<n_content, n_comedy_hour>> :> Foreign), {})}

InitUpdate ==
    /\ fs \in UpdateTrees
    /\ db \in UpdateInputs
    /\ faults = NoFaults
    /\ prog = "update"
    /\ pc = "main"
    /\ loc = [input |-> NoRun]
    /\ log = <<>>
    /\ fs0 = fs
    /\ prev = [input |-> NoRun, pc |-> "idle"]

\* main, line 20: run_script("datasets/datasets.py") prints and starts it.
UpdateRunDatasets ==
    /\ prog = "update"
    /\ pc = "main"
    /\ prog' = "datasets"
    /\ pc' = "setup"
    /\ loc' = [input |-> db]
    /\ log' = Append(log, <<"running", datasets_script>>)
    /\ UNCHANGED <<fs, db, faults, fs0, prev>>

\* What is at content.json when content.py starts.
FileOrNoFile(f, p) == IF IsFile(f, p) THEN f.files[p] ELSE NoFile

\* main, lines 20-21 and 24-26: datasets.py has ended; on status 0
\* run_script("content/content.py") prints and starts it, otherwise the
\* error is printed and main ends.
UpdateDatasetsExited ==
    /\ prog = "datasets"
    /\ pc \in Stopped \ {"idle"}
    /\ prev' = [input |-> loc.input, pc |-> pc]
    /\ IF RaisesCalledProcessError(ExitStatus(pc))
       THEN /\ prog' = "update"
            /\ pc' = "failed"
            /\ loc' = [input |-> NoRun]
            /\ log' = Append(log, <<"error_occurred", datasets_script>>)
            /\ fs0' = fs0
       ELSE /\ prog' = "content"
            /\ pc' = "load"
            /\ loc' = [input |-> FileOrNoFile(fs, db_path)]
            /\ log' = Append(log, <<"running", content_script>>)
            /\ fs0' = fs
    /\ UNCHANGED <<fs, db, faults>>

\* main, lines 21-26: content.py has ended; success is printed on status 0,
\* the error otherwise.
UpdateContentExited ==
    /\ prog = "content"
    /\ pc \in Stopped \ {"idle"}
    /\ prev' = [input |-> loc.input, pc |-> pc]
    /\ prog' = "update"
    /\ loc' = [input |-> NoRun]
    /\ IF RaisesCalledProcessError(ExitStatus(pc))
       THEN /\ pc' = "failed"
            /\ log' = Append(log, <<"error_occurred", content_script>>)
       ELSE /\ pc' = "succeeded"
            /\ log' = Append(log, <<"succeeded", <<>>>>)
    /\ UNCHANGED <<fs, db, faults, fs0>>

NextUpdate ==
    \/ UpdateRunDatasets
    \/ DataSetup
    \/ DataProcessTable
    \/ DataAggregate
    \/ DataCleanup
    \/ UpdateDatasetsExited
    \/ PagesLoad
    \/ PagesCollect
    \/ PagesGenerate
    \/ PagesCleanupFiles
    \/ PagesCleanupFolders
    \/ UpdateContentExited

SpecUpdate == InitUpdate /\ [][NextUpdate]_vars


(***************************************************************************)
(* What the claims speak of: the outcomes a run has logged, the files of a *)
(* directory, the runs before the current one.                             *)
(***************************************************************************)
Logged(outcomes) == {i \in 1..Len(log) : log[i][1] \in outcomes}

NoFailure == Logged({"write_failed", "delete_failed", "rejected"}) = {}

FilesIn(f, d) == {n \in ListDir(f, d) : IsFile(f, Append(d, n))}

HtmlFilesIn(f, d) == {n \in FilesIn(f, d) : EndsWith(n, ext_html)}

\* content.py has run to its end.
PagesDone == prog = "content" /\ pc = "done"

\* datasets.py has run to its end.
DataDone == prog = "datasets" /\ pc = "done"

\* The run before the current one ran to its end as well.
SecondRun == prev.pc = "done"

\* The slugs of the tables that have rows.
TopicsOf(input) ==
    {slugify(StrV(input.tables[i].name)) :
        i \in {j \in 1..Len(input.tables) : input.tables[j].rows # <<>>}}

\* The topic slugs content.py derives from a content.json.
PageTopicsOf(input) ==
    IF input.kind = "json" THEN ActiveTopicSlugs(collect_entries(input).entries) ELSE {}

\* content.json holds a list of one record.
OneRecord ==
    /\ prog = "content"
    /\ loc.input.kind = "json"
    /\ loc.input.isList
    /\ Len(loc.input.data) = 1
    /\ loc.input.data[1].t = "dict"

\* A raw value that is absent, or empty after trimming.
IsAbsent(v) == v = None \/ (IsStr(v) /\ Strip(v.s, Whitespace) = <<>>)

Sentinel(k) ==
    IF k = "name" THEN s_unknown_name
    ELSE IF k = "topic" THEN s_unknown_topic
    ELSE s_unknown_category

\* The value the spec gives a field of a raw record.
Normal(raw, k) ==
    IF IsAbsent(Get(raw, k)) THEN StrV(Sentinel(k))
    ELSE StrV(Strip(PyStr(Get(raw, k)), Whitespace))

C2_SecondRunWritesNothing ==
    (DataDone /\ SecondRun /\ prev.input = loc.input) => Logged({"written"}) = {}

\* C3: nothing a run has written or found unchanged, and no folder that
\* holds it, is deleted later in that run.
C3_NoLiveArtifactPruned ==
    \A i \in Logged({"written", "unchanged"}) :
        \A j \in Logged({"deleted"}) :
            i < j => ~ IsPrefix(log[j][2], log[i][2])

\* C4: when a run of datasets.py follows one that had the topics A and B,
\* and has A but not B, then B's folder and aggregate file are gone and
\* every artifact the run wrote or found unchanged for A is there.
C4_ShrinkKeepsTheOtherTopic ==
    (DataDone /\ SecondRun) =>
        \A A \in (TopicsOf(prev.input) \cap TopicsOf(loc.input)) :
            \A B \in (TopicsOf(prev.input) \ TopicsOf(loc.input)) :
                /\ ~ Exists(fs, Append(output_base_datasets, B))
                /\ ~ Exists(fs, Append(output_base_datasets, B \o ext_json))
                /\ \A i \in Logged({"written", "unchanged"}) :
                      \/ ~ \/ IsPrefix(Append(output_base_datasets, A), log[i][2])
                           \/ log[i][2] = Append(output_base_datasets, A \o ext_json)
                      \/ IsFile(fs, log[i][2])

\* C5: when content.py has run over an empty list of records after a
\* complete run, and no fatal error has ended it, no topic folder and no
\* topic page of that run is left.
C5_EmptyInputDeletesTopics ==
    (/\ prog = "content"
     /\ pc \in Stopped \ {"aborted"}
     /\ SecondRun
     /\ loc.input = Json(TRUE, <<>>)) =>
        \A topic_slug \in PageTopicsOf(prev.input) \ known_files_or_dirs :
            /\ ~ Exists(fs, Append(content_dir, topic_slug))
            /\ ~ Exists(fs, Append(content_dir, topic_slug \o ext_html))

\* C6: within a run, no file is written after the first deletion.
C6_NoWriteAfterDeletion ==
    \A i \in Logged({"deleted"}) : \A j \in Logged({"written"}) : j < i

\* C7: over a complete run of content.py, an .html file of the base
\* directory is deleted exactly when its stem is no active topic slug and
\* its name is neither index.html nor content.html.
C7_BasePagesAllowListed ==
    PagesDone =>
        \A n \in HtmlFilesIn(fs0, content_dir) :
            (~ IsFile(fs, Append(content_dir, n)))
                <=> (DropLast5(n) \notin loc.active_topic_slugs /\ n \notin known_base_pages)

\* C8: a run of datasets.py whose database is missing or unreadable leaves
\* the tree as it found it.
C8_FatalErrorLeavesTree ==
    (/\ prog = "datasets"
     /\ pc \in Stopped
     /\ loc.input # NoRun
     /\ loc.input.state \in {"missing", "corrupt"}) => fs = fs0

\* C9: a record whose name, topic or category is absent, or empty after
\* trimming, gets the sentinel of the field, and its page lies at the slugs
\* of the normalized fields.
C9_DefaultFilling ==
    (PagesDone /\ OneRecord) =>
        LET raw == loc.input.data[1].d
        IN  /\ \A k \in {"name", "topic", "category"} :
                  IsAbsent(Get(raw, k)) => loc.entries[1][k] = StrV(Sentinel(k))
            /\ IsFile(fs, <<n_content, slugify(Normal(raw, "topic")),
                            slugify(Normal(raw, "category")),
                            slugify(Normal(raw, "name")) \o ext_html>>)

\* C10: a name, topic or category that is present and not empty after
\* trimming is kept as the trimmed string form of the raw value.
C10_PresentValuesKept ==
    (OneRecord /\ pc \in {"generate", "cleanup_files", "cleanup_folders", "done"}) =>
        LET raw == loc.input.data[1].d
        IN  \A k \in {"name", "topic", "category"} :
                ~ IsAbsent(Get(raw, k)) =>
                    loc.entries[1][k] = StrV(Strip(PyStr(Get(raw, k)), Whitespace))

\* What is left of a value that is not None: its string form, each character
\* lowered, spaces and underscores as hyphens, the characters outside
\* [a-z0-9-.] dropped, and the ends cut back to the first and the last
\* character that is neither a hyphen nor a period.
Cleaned(v) ==
    LET raw == PyStr(v)
        Mapped(c) == IF c \in {" ", "_"} THEN "-" ELSE LowerChar(c)
        inner == {i \in 1..Len(raw) : Mapped(raw[i]) \in SlugChars \ {"-", "."}}
        first == CHOOSE i \in inner : \A j \in inner : i <= j
        last == CHOOSE i \in inner : \A j \in inner : j <= i
        middle == [i \in 1..(last - first + 1) |-> Mapped(raw[first + i - 1])]
    IN  IF inner = {} THEN <<>>
        ELSE SelectSeq(middle, LAMBDA c : c \in SlugChars)

\* slugify has returned.
Slugified == prog = "slugify" /\ pc \in {"returned", "returned_again"}

\* The shape every slug has.
WellFormedSlug(slug) ==
    /\ slug # <<>>
    /\ Range(slug) \subseteq SlugChars
    /\ slug[1] \notin {"-", "."}
    /\ slug[Len(slug)] \notin {"-", "."}

\* C11, as stated: the result of slugify is well formed and is 'unknown'
\* exactly when the input is None or nothing is left of it.
C11_UnknownOnlyForNothing ==
    Slugified =>
        /\ WellFormedSlug(loc.result)
        /\ loc.result = s_unknown <=> (loc.input = None \/ Cleaned(loc.input) = <<>>)

\* C11: the result of slugify is not empty, holds only characters of
\* [a-z0-9-.], neither starts nor ends with a hyphen or a period, is
\* 'unknown' when the input is None or nothing is left of it, and is what is
\* left of the input otherwise (so 'unknown' also for an input that reads
\* unknown).
C11_SlugPurity ==
    Slugified =>
        /\ WellFormedSlug(loc.result)
        /\ loc.result = IF loc.input = None \/ Cleaned(loc.input) = <<>> THEN s_unknown
                        ELSE Cleaned(loc.input)

\* slugify has returned 'unknown' for a text that is not empty and of which
\* nothing is left.
C11_Witness ==
    /\ Slugified
    /\ loc.input # None
    /\ PyStr(loc.input) # <<>>
    /\ Cleaned(loc.input) = <<>>
    /\ loc.result = s_unknown


\* write_file has returned; its outcome is the last of the log.
WriteReturned == prog = "write_file" /\ pc \in {"returned", "returned_again"}

LastOutcome == log[Len(log)]

\* The file at the path can be read and holds the content already.
SameDigest(f, file_path, content_str) ==
    /\ IsFile(f, file_path)
    /\ file_path \notin faults.read
    /\ f.files[file_path] = content_str

\* Nothing keeps the path from being written.
Writable(f, file_path) ==
    /\ file_path \notin faults.write
    /\ ~ IsDir(f, file_path)
    /\ \A d \in Prefixes(Parent(file_path)) : ~ IsFile(f, d)

\* C12: for a content that is not None, a call of write_file that finds a
\* file with the same content at the path changes nothing and reports
\* 'unchanged'; any other call, when no I/O failure stops it, adds the
\* missing parent folders, leaves the content at the path, touches nothing
\* else and reports 'written'.
C12_ContentAddressedWrite ==
    (WriteReturned /\ loc.content_str # NoContent) =>
        IF SameDigest(loc.before, loc.file_path, loc.content_str)
        THEN /\ fs = loc.before
             /\ LastOutcome = <<"unchanged", loc.file_path>>
        ELSE Writable(loc.before, loc.file_path) =>
                /\ fs.dirs = loc.before.dirs \cup Prefixes(Parent(loc.file_path))
                /\ DOMAIN fs.files = DOMAIN loc.before.files \cup {loc.file_path}
                /\ \A p \in DOMAIN fs.files :
                      fs.files[p] = IF p = loc.file_path THEN loc.content_str
                                    ELSE loc.before.files[p]
                /\ LastOutcome = <<"written", loc.file_path>>

\* A first call has written a page into folders it had to make, and the
\* second call has found it unchanged.
C12_Witness ==
    /\ WriteReturned
    /\ pc = "returned_again"
    /\ ~ IsDir(fs0, Parent(loc.file_path))
    /\ log = <<<<"written", loc.file_path>>, <<"unchanged", loc.file_path>>>>
    /\ fs = loc.before


\* The outcomes the run has logged for a path.
OutcomesOf(p) == {log[i][1] : i \in {j \in 1..Len(log) : log[j][2] = p}}

\* The paths generate_pages has registered.
RegisteredPaths ==
    UNION {{Append(d, n) : n \in loc.expected_files_by_dir[d]} :
              d \in DOMAIN loc.expected_files_by_dir}

\* What holds at the end of a run of content.py in which a write failed.
AfterFailedWrite ==
    PagesDone /\ Logged({"write_failed"}) # {} =>
        /\ \A p \in RegisteredPaths :
              /\ OutcomesOf(p) \cap {"written", "unchanged", "write_failed", "rejected"} # {}
              /\ OutcomesOf(p) \cap {"write_failed", "rejected"} = {} =>
                    IsFile(fs, p) /\ fs.files[p].kind = "text"
              /\ IsFile(fs0, p) => IsFile(fs, p)
        /\ \A d \in DOMAIN loc.expected_files_by_dir :
              HtmlFilesIn(fs, d) \subseteq loc.expected_files_by_dir[d]

\* C13: a write that fails does not end the run of content.py: generate_pages
\* goes on to the clean-up, at the end of the run every registered page whose
\* write did not fail is there as rendered, the registered directories hold no
\* unregistered page, and every registered path that was a file when the run
\* started (the failed one among them) is still a file.
C13_FailedWriteNotFatal ==
    /\ [] AfterFailedWrite
    /\ [][prog = "content" /\ pc = "generate" /\ Logged({"write_failed"})' # {}
             => pc' = "cleanup_files"]_vars

\* A run whose first write failed on a page that was there: the page is
\* still there, later pages were written and orphans were deleted.
C13_Witness ==
    /\ PagesDone
    /\ log[1] = <<"write_failed", fault_topic_page>>
    /\ IsFile(fs0, fault_topic_page) /\ IsFile(fs, fault_topic_page)
    /\ \E i \in Logged({"written"}) : i > 1
    /\ \E i \in Logged({"deleted"}) : i > 1


PruneReturned == prog = "prune" /\ pc = "returned"

\* The extension the called pruning function looks at.
PrunedExtension == IF loc.call = "cleanup_orphan_html_files" THEN ext_html ELSE ext_json

\* Nothing but files of directory d has changed since the call.
OnlyFilesOf(d) ==
    /\ fs.dirs = fs0.dirs
    /\ DOMAIN fs.files \subseteq DOMAIN fs0.files
    /\ \A p \in DOMAIN fs.files : fs.files[p] = fs0.files[p]
    /\ \A p \in DOMAIN fs0.files : Parent(p) # d => p \in DOMAIN fs.files

\* C14, as stated: after the pruning of a category directory without I/O
\* failure the files of the directory are the files that were there and are
\* in the expected set.
C14_OnlyExpectedFilesLeft ==
    PruneReturned /\ NoFailure =>
        FilesIn(fs, loc.directory) = FilesIn(fs0, loc.directory) \cap loc.expected_files

\* C14, corrected: after the pruning of a category directory every file with
\* the artifact extension (.html for the pages, .json for the datasets) that
\* is not in the expected set and whose deletion did not fail is deleted, and
\* every other file of the directory, the expected ones among them, and
\* everything outside the directory is kept.
C14_EntryLevelPruning ==
    PruneReturned =>
        /\ OnlyFilesOf(loc.directory)
        /\ FilesIn(fs, loc.directory) =
              {n \in FilesIn(fs0, loc.directory) :
                  \/ ~ EndsWith(n, PrunedExtension)
                  \/ n \in loc.expected_files
                  \/ Append(loc.directory, n) \in faults.remove}

\* The pages of a category directory pruned: the unexpected page is gone,
\* the expected page and the notes are there.
C14_Witness ==
    /\ PruneReturned
    /\ loc.call = "cleanup_orphan_html_files"
    /\ loc.directory = prune_page_dir
    /\ n_cool_clip_html \in loc.expected_files
    /\ n_stale_html \notin loc.expected_files
    /\ FilesIn(fs0, prune_page_dir) = {n_cool_clip_html, n_stale_html, n_x_html, n_notes_txt}
    /\ n_stale_html \notin FilesIn(fs, prune_page_dir)
    /\ {n_cool_clip_html, n_notes_txt} \subseteq FilesIn(fs, prune_page_dir)


FoldersReturned == prog = "prune_folders" /\ pc = "returned"

DirsIn(f, d) == {n \in ListDir(f, d) : IsDir(f, Append(d, n))}

\* The active category slugs the call was given for a topic slug.
ActiveCategories(t) ==
    IF t \in DOMAIN loc.active_categories_by_topic_slug
    THEN loc.active_categories_by_topic_slug[t] ELSE {}

\* The extension of the artifacts of the tree the call prunes.
ArtifactExtension == IF loc.call = "cleanup_orphan_content_folders" THEN ext_html ELSE ext_json

\* The per-topic files that are kept whatever the active categories.
AllowListed(n) == loc.call = "cleanup_orphan_folders" /\ n = n_categories_json

\* File name n is the page or the aggregate of an active category of topic t.
OfActiveCategory(t, n) == \E c \in ActiveCategories(t) : n = c \o ArtifactExtension

\* C15, as stated: after the folder pruning without I/O failure the folder of
\* an active topic holds no folder but those of its active categories and no
\* file but the pages or aggregates of its active categories and the
\* allow-listed files, and those that were there are kept.
C15_OnlyActiveCategoriesLeft ==
    FoldersReturned /\ NoFailure =>
        \A t \in loc.active_topic_slugs :
            LET d == Append(loc.output_base_path, t)
            IN  /\ DirsIn(fs, d) = DirsIn(fs0, d) \cap ActiveCategories(t)
                /\ FilesIn(fs, d) =
                      {n \in FilesIn(fs0, d) : OfActiveCategory(t, n) \/ AllowListed(n)}

\* C15, corrected: after the folder pruning the folder of an active topic
\* holds, of the folders that were there, those of its active categories
\* (with all they held) and those whose deletion failed, and of the files
\* that were there, those without the artifact extension, the pages or
\* aggregates of its active categories, the allow-listed categories.json of
\* the dataset tree, and those whose deletion failed.
C15_TopicLevelPruning ==
    FoldersReturned =>
        \A t \in loc.active_topic_slugs :
            LET d == Append(loc.output_base_path, t)
            IN  /\ DirsIn(fs, d) =
                      {n \in DirsIn(fs0, d) :
                          n \in ActiveCategories(t) \/ Append(d, n) \in faults.remove}
                /\ FilesIn(fs, d) =
                      {n \in FilesIn(fs0, d) :
                          \/ ~ EndsWith(n, ArtifactExtension)
                          \/ OfActiveCategory(t, n)
                          \/ AllowListed(n)
                          \/ Append(d, n) \in faults.remove}
                /\ \A p \in DOMAIN fs0.files :
                      (\E n \in DirsIn(fs, d) : IsPrefix(Append(d, n), p)) =>
                          p \in DOMAIN fs.files /\ fs.files[p] = fs0.files[p]

\* The dataset folder of an active topic pruned: the orphan folder and the
\* orphan aggregate are gone, the active category's folder and aggregate,
\* categories.json and the notes are there.
C15_Witness ==
    /\ FoldersReturned
    /\ loc.call = "cleanup_orphan_folders"
    /\ NoFailure
    /\ n_comedy_hour \in loc.active_topic_slugs
    /\ ActiveCategories(n_comedy_hour) = {n_stand_up}
    /\ DirsIn(fs0, data_topic_dir) = {n_stand_up, n_old_cat}
    /\ DirsIn(fs, data_topic_dir) = {n_stand_up}
    /\ n_old_cat_json \in FilesIn(fs0, data_topic_dir)
    /\ FilesIn(fs, data_topic_dir) = {n_stand_up \o ext_json, n_categories_json, n_notes_txt}


\* The content path the spec derives from an entry's own fields, as a link
\* below /content/ to the entry's page.
DerivedPath(e) ==
    StrV(p_content \o slugify(e.topic) \o <<"/">> \o slugify(e.category) \o <<"/">>
             \o slugify(e.name) \o ext_html)

\* The entries datasets.py has collected from the tables processed so far.
CollectedEntries ==
    IF prog = "datasets" /\ "global_entries" \in DOMAIN loc THEN loc.global_entries ELSE <<>>

\* C16, as stated: the media_piece_path of every entry of datasets.py is the
\* path made of the slugs of the entry's own topic, category and name.
C16_DerivedContentPath ==
    \A i \in 1..Len(CollectedEntries) :
        CollectedEntries[i]["media_piece_path"] = DerivedPath(CollectedEntries[i])


\* List out holds the elements of list inp in ascending order of key (the
\* keys of out), those of equal key in the order they have in inp.
IsStableSort(out, inp, key) ==
    /\ Len(out) = Len(inp)
    /\ \E pi \in Permutations(1..Len(inp)) :
          /\ \A k \in 1..Len(out) : out[k] = inp[pi[k]]
          /\ \A k, l \in 1..Len(out) :
                k < l => /\ ~ StrLess(key[l], key[k])
                         /\ key[k] = key[l] => pi[k] < pi[l]

\* The name of an entry in lower case.
LowerName(e) == Lower(e["name"].s)

\* content.py holds the sorted entries of this run.
PagesCollected == prog = "content" /\ pc \in {"generate", "cleanup_files", "cleanup_folders", "done"}

\* The entries of the records of content.json, in the order of the file.
InputEntries ==
    LET dicts == SelectSeq(loc.input.data, LAMBDA item : item.t = "dict")
    IN  [i \in 1..Len(dicts) |-> processed_entry(dicts[i].d)]

\* The entries of list s with the topic and the category of entry e.
LeafOf(s, e) ==
    SelectSeq(s, LAMBDA x : x["topic"] = e["topic"] /\ x["category"] = e["category"])

\* datasets.py has written the files of its tables.
TablesWritten == prog = "datasets" /\ pc \in {"aggregate", "cleanup", "done"}

\* The category aggregates this run of datasets.py has written.
LeafFiles ==
    {p \in DOMAIN fs.files :
        /\ Len(p) = 4
        /\ Parent(Parent(p)) = output_base_datasets
        /\ p[4] # n_categories_json
        /\ OutcomesOf(p) \cap {"written", "unchanged"} # {}
        /\ fs.files[p].kind = "json" /\ fs.files[p].isList}

\* The name and the category of an entry.
NameAndCategory(e) == <<e["name"].s, e["category"].s>>

\* The names and categories datasets.py gives the rows of the table, in the
\* order of the rows.
RowNames ==
    LET rows == IF loc.input.tables = <<>> THEN <<>> ELSE loc.input.tables[1].rows
    IN  [i \in 1..Len(rows) |->
            <<PyOr(ds_normalize_value(rows[i].name), StrV(s_unknown_name)).s,
              PyOr(ds_normalize_value(rows[i].category), StrV(s_unknown_category)).s>>]

\* C17: every list of entries of one topic and category that content.py
\* renders, and every category aggregate that datasets.py writes, is in
\* ascending order of the lower-cased names, entries of equal lower-cased
\* name in their input order.
C17_SortedLeaves ==
    /\ PagesCollected =>
          \A i \in 1..Len(loc.entries) :
              LET leaf == LeafOf(loc.entries, loc.entries[i])
              IN  IsStableSort(leaf, LeafOf(InputEntries, loc.entries[i]),
                               [k \in 1..Len(leaf) |-> LowerName(leaf[k])])
    /\ TablesWritten /\ Len(loc.input.tables) <= 1 =>
          \A p \in LeafFiles :
              LET leaf == fs.files[p].data
                  names == [k \in 1..Len(leaf) |-> NameAndCategory(leaf[k].d)]
                  rows == SelectSeq(RowNames, LAMBDA n : n \in Range(names))
              IN  IsStableSort(names, rows, [k \in 1..Len(names) |-> Lower(names[k][1])])

\* The entries of content.json are one category, B, b, a in this order.
LeafInputBba ==
    /\ Len(loc.input.data) = 3
    /\ [i \in 1..3 |-> loc.input.data[i].d["name"].s] = <<t_B, t_b, t_a>>
    /\ \A i \in 1..3 : loc.input.data[i].d["category"] = StrV(t_Stand_Up)

\* content.py has rendered the category Stand Up with a, B, b from the
\* input B, b, a.
C17_Witness ==
    /\ PagesCollected
    /\ pc = "done"
    /\ loc.input.kind = "json" /\ loc.input.isList /\ LeafInputBba
    /\ [i \in 1..3 |-> loc.entries[i]["name"].s] = <<t_a, t_B, t_b>>

\* datasets.py has written stand-up.json with a, b, B from the rows b, B, a.
LeafFileWritten ==
    /\ TablesWritten
    /\ [i \in 1..Len(RowNames) |-> RowNames[i][1]] = <<t_b, t_B, t_a>>
    /\ \E p \in LeafFiles :
          /\ p[4] = n_stand_up \o ext_json
          /\ [k \in 1..Len(fs.files[p].data) |-> fs.files[p].data[k].d["name"].s]
                = <<t_a, t_b, t_B>>

\* The names in directory d whose deletion fails.
Undeletable(d) == {n \in ListDir(fs, d) : Append(d, n) \in faults.remove}

\* C18: at the end of a run of content.py in which deletions failed, every
\* failure is logged and the item is still there, and everything else the
\* pruning is to delete is gone at every level: the registered directories
\* hold no unregistered page, the base directory no folder and the folders of
\* the active topics no folder and no page that is not active, the items
\* that could not be deleted apart. An unregistered page that is still in
\* a registered directory has its failure in the log.
C18_DeleteFailuresIsolated ==
    PagesDone =>
        /\ \A i \in Logged({"delete_failed"}) :
              log[i][2] \in faults.remove /\ Exists(fs, log[i][2])
        /\ \A d \in DOMAIN loc.expected_files_by_dir :
              /\ HtmlFilesIn(fs, d) \ (IF d = content_dir THEN known_base_pages ELSE {})
                    \subseteq loc.expected_files_by_dir[d] \cup Undeletable(d)
              /\ \A n \in HtmlFilesIn(fs, d) \ loc.expected_files_by_dir[d] :
                    n \in Undeletable(d) => "delete_failed" \in OutcomesOf(Append(d, n))
        /\ DirsIn(fs, content_dir) \subseteq
              loc.active_topic_slugs \cup known_files_or_dirs \cup Undeletable(content_dir)
        /\ \A t \in loc.active_topic_slugs :
              LET d == Append(content_dir, t)
                  active == IF t \in DOMAIN loc.active_categories_by_topic_slug
                            THEN loc.active_categories_by_topic_slug[t] ELSE {}
              IN  /\ DirsIn(fs, d) \subseteq active \cup Undeletable(d)
                  /\ \A n \in HtmlFilesIn(fs, d) :
                        DropLast5(n) \in active \/ n \in Undeletable(d)

\* A run in which deletions failed at the three levels: the failures are
\* logged and the items still there, and the other orphans of their
\* directories, a folder of the base directory and a page of the topic
\* folder, are gone, deleted after the first failure.
C18_Witness ==
    /\ PagesDone
    /\ {log[i][2] : i \in Logged({"delete_failed"})} =
          {undeletable_page, undeletable_folder, undeletable_entry}
    /\ IsFile(fs, undeletable_page) /\ IsDir(fs, undeletable_folder)
    /\ IsFile(fs, undeletable_entry)
    /\ Exists(fs0, <<n_content, n_old>>) /\ ~ Exists(fs, <<n_content, n_old>>)
    /\ IsFile(fs0, <<n_content, n_comedy_hour, n_old_cat_html>>)
    /\ ~ Exists(fs, <<n_content, n_comedy_hour, n_old_cat_html>>)
    /\ \E i \in Logged({"delete_failed"}) : \E j \in Logged({"deleted"}) : i < j

\* C19: a call of write_file with None for a content is reported as
\* rejected, not as written, and leaves every file and directory as it was.
C19_NullContentRejected ==
    WriteReturned /\ loc.content_str = NoContent =>
        /\ fs = loc.before
        /\ LastOutcome = <<"rejected", loc.file_path>>
        /\ Logged({"written"}) = {}

\* None was to be written to a path whose folders do not exist: they still
\* do not.
C19_Witness ==
    /\ WriteReturned
    /\ loc.content_str = NoContent
    /\ loc.file_path = write_path_new
    /\ ~ Exists(fs, Parent(write_path_new))
    /\ ~ Exists(fs, write_path_new)
    /\ log = <<<<"rejected", write_path_new>>>>


\* The records of content.json that are dicts.
WellFormed == SelectSeq(loc.input.data, LAMBDA item : item.t = "dict")

\* content.json holds a list with an item that is no dict.
HasMalformed ==
    /\ prog = "content" /\ loc.input # NoRun
    /\ loc.input.kind = "json" /\ loc.input.isList
    /\ \E i \in 1..Len(loc.input.data) : loc.input.data[i].t # "dict"

\* C20, as stated: from a list with items that are no dicts content.py
\* collects as many entries as the list has dicts, each the entry of its
\* dict, and the run does not end in the collection when there is a dict.
C20_MalformedSkipped ==
    HasMalformed =>
        /\ PagesCollected =>
              /\ Len(loc.entries) = Len(WellFormed)
              /\ \A i \in 1..Len(WellFormed) :
                    \E k \in 1..Len(loc.entries) :
                        loc.entries[k] = processed_entry(WellFormed[i].d)
        /\ WellFormed # <<>> => pc \notin {"no_entries", "crashed"}

\* The groups of the entries in the order generate_pages takes them: a topic
\* t, a category c of it, and their ranks of first appearance.
EntryGroups ==
    LET topics == FirstSeen([i \in 1..Len(loc.entries) |-> Get(loc.entries[i], "topic")])
    IN  UNION {LET mine == SelectSeq(loc.entries, LAMBDA e : Get(e, "topic") = topics[ti])
                   cats == FirstSeen([i \in 1..Len(mine) |-> Get(mine[i], "category")])
               IN  {[t |-> topics[ti], c |-> cats[ci], ti |-> ti, ci |-> ci] :
                       ci \in 1..Len(cats)} : ti \in 1..Len(topics)}

TopicPageOf(g) == <<n_content, slugify(g.t) \o ext_html>>

CategoryPageOf(g) == <<n_content, slugify(g.t), slugify(g.c) \o ext_html>>

EntryPageOf(e) ==
    <<n_content, slugify(Get(e, "topic")), slugify(Get(e, "category")),
      slugify(GetOr(e, "name", StrV(s_unknown_name))) \o ext_html>>

\* Group g is taken after every other group of the set.
LastOf(groups, g) ==
    \A h \in groups : h.ti < g.ti \/ (h.ti = g.ti /\ h.ci <= g.ci)

\* How often the run has written, or found as it is, the file at a path.
WritesTo(p) == Cardinality({i \in Logged({"written", "unchanged"}) : log[i][2] = p})

\* Two groups whose topics, or whose categories in one topic, differ and
\* have the same slug.
Collide(g, h) ==
    \/ g.t # h.t /\ slugify(g.t) = slugify(h.t)
    \/ g.t = h.t /\ g.c # h.c /\ slugify(g.c) = slugify(h.c)

\* C21: after a run of content.py without I/O failure over entries with
\* colliding groups, every topic page and every category page has been
\* written once for each topic, respectively each group, that has its path,
\* the page on disk is the one rendered for the last of them, and the page
\* of every entry is on disk.
C21_SlugCollision ==
    PagesDone /\ NoFailure /\ (\E g, h \in EntryGroups : Collide(g, h)) =>
        /\ \A g \in EntryGroups :
              LET same == {h \in EntryGroups : TopicPageOf(h) = TopicPageOf(g)}
              IN  /\ WritesTo(TopicPageOf(g)) = Cardinality({h.t : h \in same})
                  /\ LastOf(same, g) =>
                        /\ IsFile(fs, TopicPageOf(g))
                        /\ fs.files[TopicPageOf(g)] = generate_topic_html(g.t, <<>>, TopicTemplate)
        /\ \A g \in EntryGroups :
              LET same == {h \in EntryGroups : CategoryPageOf(h) = CategoryPageOf(g)}
              IN  /\ WritesTo(CategoryPageOf(g)) = Cardinality(same)
                  /\ LastOf(same, g) =>
                        /\ IsFile(fs, CategoryPageOf(g))
                        /\ fs.files[CategoryPageOf(g)] =
                              generate_category_html(g.t, g.c, <<>>, CategoryTemplate)
        /\ \A i \in 1..Len(loc.entries) : IsFile(fs, EntryPageOf(loc.entries[i]))


\* A run over b in the category stand_up and a in the category Stand Up of
\* one topic: the page of the category was written twice, it is the page of
\* stand_up, taken last, and the pages of a and b are in the one folder.
C21_Witness ==
    /\ PagesDone /\ NoFailure
    /\ loc.input.kind = "json" /\ loc.input.isList /\ Len(loc.input.data) = 2
    /\ loc.input.data[1] = ItemSameCategorySlug
    /\ Get(loc.input.data[2].d, "category") = StrV(t_Stand_Up)
    /\ Get(loc.input.data[2].d, "topic") = StrV(t_Comedy_Hour)
    /\ WritesTo(<<n_content, n_comedy_hour, n_stand_up \o ext_html>>) = 2
    /\ WritesTo(<<n_content, n_comedy_hour \o ext_html>>) = 1
    /\ fs.files[<<n_content, n_comedy_hour, n_stand_up \o ext_html>>] =
          generate_category_html(StrV(t_Comedy_Hour), StrV(t_stand_up), <<>>, CategoryTemplate)
    /\ IsFile(fs, <<n_content, n_comedy_hour, n_stand_up, t_a \o ext_html>>)
    /\ IsFile(fs, <<n_content, n_comedy_hour, n_stand_up, t_b \o ext_html>>)


\* The scripts the launcher has started, in order.
Started == SelectSeq(log, LAMBDA e : e[1] = "running")

LauncherReported(outcome) == \E i \in 1..Len(log) : log[i][1] = outcome

\* content.py is running or has run under the launcher.
ContentStarted == \E i \in 1..Len(log) : log[i] = <<"running", content_script>>

\* C22: update.py runs datasets/datasets.py to its end before it starts
\* content/content.py, starts content/content.py only after datasets.py has
\* exited with status zero, and after a script has exited with another
\* status starts no script any more and does not report success.
C22_LauncherSequencing ==
    /\ [] /\ Len(Started) <= 2
          /\ Len(Started) >= 1 => Started[1] = <<"running", datasets_script>>
          /\ ContentStarted => Started = <<<<"running", datasets_script>>,
                                           <<"running", content_script>>>>
          /\ prog = "content" => prev.pc \in Stopped \ {"idle", "crashed"}
          /\ LauncherReported("succeeded") =>
                /\ prog = "update" /\ pc = "succeeded"
                /\ prev.pc \in Stopped \ {"idle", "crashed"}
                /\ ~ LauncherReported("error_occurred")
    /\ [][ /\ prog' = "content" /\ prog # "content" =>
                prog = "datasets" /\ pc \in Stopped \ {"idle", "crashed"}
           /\ pc = "crashed" => prog' = "update" /\ pc' = "failed"
           /\ prog = "update" /\ pc = "failed" => FALSE ]_vars

\* datasets.py crashed on its output folder and nothing else was started.
C22_Witness ==
    /\ prog = "update" /\ pc = "failed"
    /\ Started = <<<<"running", datasets_script>>>>
    /\ log[Len(log)] = <<"error_occurred", datasets_script>>

\* content.py crashed after a datasets.py that wrote entries.
ContentFailed ==
    /\ prog = "update" /\ pc = "failed"
    /\ log[Len(log)] = <<"error_occurred", content_script>>
    /\ \E i \in 1..Len(log) : log[i] = <<"written", universal_file>>

\* Both scripts ran to their end and success was reported.
AllSucceeded ==
    /\ prog = "update" /\ pc = "succeeded"
    /\ prev.pc = "done"
    /\ \E i \in 1..Len(log) : log[i] = <<"written", universal_file>>


\* slugify has returned from the call on its own result.
SlugifiedAgain == prog = "slugify" /\ pc = "returned_again"

\* C23: slugify is idempotent: for every input, text, number or None,
\* slugify of the slug is the slug.
C23_SlugifyIdempotent == SlugifiedAgain => loc.again = loc.result

\* A text that slugify changed (case, a blank, a dropped character and a
\* trimmed end at once) and whose slug the second call left alone.
C23_Witness ==
    /\ SlugifiedAgain
    /\ loc.input # None
    /\ IsStr(loc.input)
    /\ \E i \in 1..Len(loc.input.s) : loc.input.s[i] = "!"
    /\ \E i \in 1..Len(loc.input.s) : loc.input.s[i] = "A"
    /\ Len(loc.result) < Len(loc.input.s)
    /\ loc.result # s_unknown
    /\ loc.again = loc.result

\* The slug of None and of a text of which nothing is left, slugged again.
UnknownSluggedAgain ==
    /\ SlugifiedAgain
    /\ loc.input = None
    /\ loc.again = s_unknown


\* The directories of the page tree that the folder cleanup exempts.
ReservedDirs == {<<n_content, n_templates>>, <<n_content, n_media>>}

InReserved(p) == \E d \in ReservedDirs : IsPrefix(d, p) /\ p # d

\* The files of tree f inside the reserved directories, with their content.
ReservedFiles(f) == [p \in {q \in DOMAIN f.files : InReserved(q)} |-> f.files[p]]

\* C24: a run of content.py neither creates, overwrites nor deletes a file
\* inside the reserved directories templates and media of the page tree,
\* whatever the records, a topic whose slug is one of these names included.
C24_ReservedUntouched ==
    prog = "content" => ReservedFiles(fs) = ReservedFiles(fs0)


\* No file of the reserved directories is deleted by a run of content.py.
ReservedFilesKept ==
    prog = "content" => DOMAIN ReservedFiles(fs0) \subseteq DOMAIN ReservedFiles(fs)


\* content.py, started by the launcher, has written its pages.
PagesGenerated ==
    /\ prog = "content"
    /\ pc \in {"cleanup_files", "cleanup_folders", "done"}
    /\ LauncherReported("running")

\* The entries of content.py that carry the path datasets.py stored.
ExportedEntries ==
    {loc.entries[i] : i \in {j \in 1..Len(loc.entries) :
                                "media_piece_path" \in DOMAIN loc.entries[j]}}

\* The file a path of the site names, as the text of a link.
LinkTo(p) == p_content \o p[2] \o <<"/">> \o p[3] \o <<"/">> \o p[4]

\* C25: for every entry that datasets.py exported into content.json and
\* content.py rendered, the media_piece_path stored in the entry names the
\* file content.py has written for the entry, whatever the topic column,
\* the table name and the category.
C25_CrossScriptPaths ==
    PagesGenerated =>
        \A e \in ExportedEntries :
            /\ WritesTo(EntryPageOf(e)) > 0
            /\ Get(e, "media_piece_path") = StrV(LinkTo(EntryPageOf(e)))


\* The tree a path lies in and the extension of the artifacts of that tree.
InPageTree(p) == IsPrefix(content_dir, p) /\ p # content_dir

InDataTree(p) == IsPrefix(output_base_datasets, p) /\ p # output_base_datasets

\* A file of a tree whose name does not end with the tree's extension.
OtherKind(p) ==
    \/ InPageTree(p) /\ ~ EndsWith(p[Len(p)], ext_html)
    \/ InDataTree(p) /\ ~ EndsWith(p[Len(p)], ext_json)

\* The topic and category directories above a file of a tree.
FoldersAbove(p) ==
    {d \in Prefixes(Parent(p)) : Len(d) \in (IF InPageTree(p) THEN 2..3 ELSE 3..4)}

\* The slugs of a topic or category directory: <<topic>> or <<topic, category>>.
SlugsOf(d) == IF InPageTree(d) THEN Tail(d) ELSE Tail(Tail(d))

\* Directory d is a topic or a category that the run's records do not name.
OrphanFolder(d, topic_slugs, categories_by_topic_slug) ==
    LET slugs == SlugsOf(d)
    IN  \/ slugs[1] \notin topic_slugs
        \/ /\ Len(slugs) = 2
           /\ slugs[2] \notin (IF slugs[1] \in DOMAIN categories_by_topic_slug
                               THEN categories_by_topic_slug[slugs[1]] ELSE {})

\* The active slugs the cleanup of the running script is called with.
ActiveTopics ==
    IF prog = "content" THEN ActiveTopicSlugs(loc.entries) ELSE loc.all_active_topic_slugs

ActiveCategoriesOfTopics ==
    IF prog = "content" THEN ActiveCategoriesByTopicSlug(loc.entries)
    ELSE loc.all_active_categories_by_topic_slug

\* C26: no step of a script deletes a file of its tree whose name does not
\* end with the tree's extension (.html under content, .json under
\* datasets/content), unless the step removes an orphan topic or category
\* directory above the file.
C26_OnlySameKindPruned ==
    [][\A p \in DOMAIN fs.files :
          OtherKind(p) /\ p \notin DOMAIN fs'.files =>
              \E d \in FoldersAbove(p) :
                  /\ d \in fs.dirs
                  /\ d \notin fs'.dirs
                  /\ OrphanFolder(d, ActiveTopics, ActiveCategoriesOfTopics)]_vars

\* Both scripts have pruned all three levels of an active topic: the pages
\* and data files that nothing names are deleted, the notes beside them are
\* there, and the notes inside the orphan folders went with the folders.
C26_Witness ==
    /\ prog = "content" /\ pc = "done"
    /\ LauncherReported("running")
    /\ \A p \in {<<n_content, n_old_html>>,
                 <<n_content, n_comedy_hour, n_old_cat_html>>,
                 <<n_content, n_comedy_hour, n_stand_up, n_stale_html>>,
                 <<n_datasets, n_content, n_old_json>>,
                 <<n_datasets, n_content, n_comedy_hour, n_old_cat_json>>,
                 <<n_datasets, n_content, n_comedy_hour, n_stand_up, n_stale_json>>} :
          \E i \in 1..Len(log) : log[i] = <<"deleted", p>>
    /\ \A p \in {<<n_content, n_notes_txt>>,
                 <<n_content, n_comedy_hour, n_notes_txt>>,
                 <<n_content, n_comedy_hour, n_stand_up, n_notes_txt>>,
                 <<n_content, n_media, n_pic_jpg>>,
                 <<n_datasets, n_content, n_notes_txt>>,
                 <<n_datasets, n_content, n_comedy_hour, n_notes_txt>>,
                 <<n_datasets, n_content, n_comedy_hour, n_stand_up, n_notes_txt>>} :
          IsFile(fs, p)
    /\ \A p \in {<<n_content, n_old, n_notes_txt>>,
                 <<n_content, n_comedy_hour, n_old_cat, n_notes_txt>>,
                 <<n_datasets, n_content, n_old, n_notes_txt>>,
                 <<n_datasets, n_content, n_comedy_hour, n_old_cat, n_notes_txt>>} :
          ~ IsFile(fs, p)


====
